---- MODULE Spec2Model ----
(***************************************************************************)
(* Model of the L293D serial slave (revision 1.1.0): frame decoder, hex    *)
(* decoding, address dispatch, per-channel on/off timing, EEPROM-backed    *)
(* timing configuration and the relay of every frame to the next slave.    *)
(* Bytes are ASCII codes; times are milliseconds.                          *)
(***************************************************************************)
EXTENDS Integers, Sequences, FiniteSets, TLC

\* ------------------------------------------------------------------ bounds
\* Highest clock value explored.
MaxTime == 31
\* Longest time between two consecutive runs of checkResetChannels.
MaxCycleGap == 11
\* Range of the millisecond counter (unsigned long, scaled down).
MillisRange == 4096
\* Highest clock value reached by idling.
IdleMaxTime == 1032
\* Revision 1.0.0: how far beyond one counter range the device is followed.
RevOverrun == 1100

\* --------------------------------------------------------- program constants
EEPROM_SET_FLAG == 100
SERIAL_MAX_DATA_LENGTH == 32
SERIAL_MSG_BEGIN_CHAR == 60
SERIAL_MSG_END_CHAR == 62
DEFAULT_CHANNEL_ON_TIME == 80
DEFAULT_MIN_CHANNEL_OFF_TIME == 40
SERIAL_TIMEOUT == 1000
NUM_CHANNELS == 8
CR == 13
LF == 10
\* Revision 1.0.0: time after which checkResetChannels turns everything off.
CHANNEL_RESET_TIME == 1000
\* Rotary master: number of slaves with motor shields.
MOTOR_SHIELD_COUNT == 4

\* ------------------------------------------------------------- environment
\* Values of the compile-time DEVICE_ADDRESS explored.
DeviceAddresses == {0, 1, 254}

\* EEPROM images found at first boot (offsets 0..3); 255 is an erased cell.
EepromImages ==
  { <<255, 255, 255, 255>>,
    <<100, 1, 100, 1>> }

\* Frames the master transmits: "<0194>", "<0100>", "<0005>", "<FF19>",
\* "<FE02>".
F0194 == <<60, 48, 49, 57, 52, 62>>
F0100 == <<60, 48, 49, 48, 48, 62>>
F0005 == <<60, 48, 48, 48, 53, 62>>
FFF19 == <<60, 70, 70, 49, 57, 62>>
FFE02 == <<60, 70, 69, 48, 50, 62>>
\* "<0194" followed by 26 more digits and ">": 32 bytes with the markers.
F32 == <<60, 48, 49, 57, 52>> \o [k \in 1 .. 26 |-> 48 + (k % 10)] \o <<62>>

\* Sequences of frames the master transmits in one run.
Scripts ==
  { << F0194, F0194 >>,
    << F0194, F0100 >>,
    << F0005, F0194 >>,
    << F0194, FFF19 >>,
    << FFE02, F0194 >>,
    << FFF19, FFE02 >>,
    << F32 >> }

\* Further transmissions: "<zz>", the unfinished "<01", a frame of 34 bytes
\* ("<0194", 28 more digits, ">") and three frames written back to back with
\* a line terminator before the third.
Fzz == <<60, 122, 122, 62>>
P01 == <<60, 48, 49>>
F34 == <<60, 48, 49, 57, 52>> \o [k \in 1 .. 28 |-> 48 + (k % 10)] \o <<62>>
FCat == F0005 \o F0194 \o <<13, 10>> \o F0100
\* A start marker with nothing after it.
PStart == <<60>>

\* Sequences of transmissions that exercise the frame decoder.
DecoderScripts ==
  { << P01, F0194 >>,
    << FCat >>,
    << F34 >>,
    << Fzz, F0194 >>,
    << F0005, Fzz >>,
    << F0005, PStart >>,
    << Fzz >> }

\* Lengths of the pauses in which the loop runs without anything to do.
IdleSteps == {1000, 1001}

\* Amounts by which the clock advances between two steps of the program.
TickSteps == {9, 10, 11}

\* Numbers of bytes that arrive together.
ArriveSizes == {5, 40}

VARIABLES
  now,                    \* millis()
  pc,                     \* next call of loop()
  wire,                   \* bytes the master has written, not yet arrived
  rx,                     \* bytes waiting in the serial receive buffer
  out,                    \* bytes written to the outbound serial stream
  todo,                   \* frames the master has still to transmit
  deviceAddress,
  serialData,
  serialMessageActive,
  serialMessageLength,
  serialNextChar,
  serialMessageAvailable,
  serialLastTime,
  setChannelLastTime,
  channelOnTime,
  minChannelOffTime,
  channelOnBitmask,
  eeprom,
  actuator,               \* mask last given to allChannelOutput
  frameRx,                \* history: bytes read since the start marker
  lastCheck,              \* history: time of the last checkResetChannels
  cfgChanged,             \* history: channelOnTime changed while channel on
  eeLog,                  \* history: EEPROM offsets written, in order
  dropped,                \* history: bytes discarded by the frame timeout
  master,                 \* arguments of the master's sendMotorShieldCommand
  motorChannels,          \* local variable of allChannelOutput
  shiftRegister,          \* value last given to shiftWriteAll
  pwmPins,                \* values last given to analogWrite, per motor
  uptime,                 \* milliseconds since boot, not wrapped
  lastUptime,             \* uptime at the time stamp under examination
  setChannelsLastTime,    \* revision 1.0.0: time of the last channel command
  rotary                  \* rotary master: globals, encoder pins, position

vars == << now, pc, wire, rx, out, todo, deviceAddress, serialData,
           serialMessageActive, serialMessageLength, serialNextChar,
           serialMessageAvailable, serialLastTime, setChannelLastTime,
           channelOnTime, minChannelOffTime, channelOnBitmask, eeprom,
           actuator, frameRx, lastCheck, cfgChanged, eeLog, dropped,
           master, motorChannels, shiftRegister, pwmPins, uptime,
           lastUptime, setChannelsLastTime, rotary >>

envVars == << wire, rx, todo >>
serialVars == << serialData, serialMessageActive, serialMessageLength,
                 serialNextChar, serialMessageAvailable, serialLastTime,
                 frameRx, dropped >>
channelVars == << setChannelLastTime, channelOnBitmask, cfgChanged >>
configVars == << channelOnTime, minChannelOffTime, eeprom, eeLog >>
\* Variables of the master, of the output stage, of the unwrapped clock and
\* of revision 1.0.0; the slave's control cycle does not touch them.
auxVars == << master, motorChannels, shiftRegister, pwmPins, uptime,
              lastUptime, setChannelsLastTime, rotary >>

Channels == 0 .. (NUM_CHANNELS - 1)

\* ------------------------------------------------------------ bit macros
Pow2(i) == 2 ^ i

bitRead(v, i) == (v \div Pow2(i)) % 2

bitWrite(v, i, b) ==
  IF b = 1
    THEN (IF bitRead(v, i) = 1 THEN v ELSE v + Pow2(i))
    ELSE (IF bitRead(v, i) = 1 THEN v - Pow2(i) ELSE v)

\* Variant: the difference is taken without wrapping.
Elapsed_Plain(t, last) == t - last

\* Unsigned difference of two readings of the millisecond counter.
Elapsed(t, last) == (t - last) % MillisRange

\* ------------------------------------------------------------- hex decoding
\* Variant: a character that is no hex digit decodes to 15.
charToNib_Sticky(ch) ==
  IF ch >= 48 /\ ch <= 57 THEN ch - 48
  ELSE IF ch >= 65 /\ ch <= 70 THEN ch - 65 + 10
  ELSE IF ch >= 97 /\ ch <= 102 THEN ch - 97 + 10
  ELSE 15

\* Variant: lower-case letters are no digits.
charToNib_UpperOnly(ch) ==
  IF ch >= 48 /\ ch <= 57 THEN ch - 48
  ELSE IF ch >= 65 /\ ch <= 70 THEN ch - 65 + 10
  ELSE 0

charToNib(ch) ==
  IF ch >= 48 /\ ch <= 57 THEN ch - 48
  ELSE IF ch >= 65 /\ ch <= 70 THEN ch - 65 + 10
  ELSE IF ch >= 97 /\ ch <= 102 THEN ch - 97 + 10
  ELSE 0

readSerialByte(data, index) ==
  (charToNib(data[index]) * 16 + charToNib(data[index + 1])) % 256

\* ------------------------------------------------------------------ EEPROM
loadChannelOnTime(ee) ==
  IF ee[0] = EEPROM_SET_FLAG THEN ee[1] * 10 ELSE DEFAULT_CHANNEL_ON_TIME

\* Variant: the minimum off time is decided by the flag of the on time.
loadMinChannelOffTime_OnFlag(ee) ==
  IF ee[0] = EEPROM_SET_FLAG THEN ee[3] * 10 ELSE DEFAULT_MIN_CHANNEL_OFF_TIME

loadMinChannelOffTime(ee) ==
  IF ee[2] = EEPROM_SET_FLAG THEN ee[3] * 10 ELSE DEFAULT_MIN_CHANNEL_OFF_TIME

\* Configuration as a record [ee, on, off, log].
\* Variant: the on time is written to the offsets of the minimum off time.
setChannelOnTime_OffOffsets(cfg, onTimeCs) ==
  [cfg EXCEPT !.ee = [cfg.ee EXCEPT ![2] = EEPROM_SET_FLAG, ![3] = onTimeCs],
              !.on = onTimeCs * 10, !.log = cfg.log \o << 2, 3 >>]

\* Variant: the flag that marks the stored on time as set is not written.
setChannelOnTime_NoFlag(cfg, onTimeCs) ==
  [cfg EXCEPT !.ee = [cfg.ee EXCEPT ![1] = onTimeCs],
              !.on = onTimeCs * 10, !.log = cfg.log \o << 1 >>]

setChannelOnTime(cfg, onTimeCs) ==
  [cfg EXCEPT !.ee = [cfg.ee EXCEPT ![0] = EEPROM_SET_FLAG, ![1] = onTimeCs],
              !.on = onTimeCs * 10, !.log = cfg.log \o << 0, 1 >>]

\* Variant: the flag is written to the offset of the on-time flag.
setMinChannelOffTime_OnFlag(cfg, minOffTimeCs) ==
  [cfg EXCEPT !.ee = [cfg.ee EXCEPT ![0] = EEPROM_SET_FLAG, ![3] = minOffTimeCs],
              !.off = minOffTimeCs * 10, !.log = cfg.log \o << 0, 3 >>]

setMinChannelOffTime(cfg, minOffTimeCs) ==
  [cfg EXCEPT !.ee = [cfg.ee EXCEPT ![2] = EEPROM_SET_FLAG, ![3] = minOffTimeCs],
              !.off = minOffTimeCs * 10, !.log = cfg.log \o << 2, 3 >>]

\* ------------------------------------------------------------ frame decoder
\* Decoder state as a record [act, len, data, next, avail, last, rx, got, ret,
\* drop].
\* Variant: no slot is kept free for the end marker.
listenSerialNewChar_NoReserve(s, leaveCharsAtEnd) ==
  IF s.len >= SERIAL_MAX_DATA_LENGTH
    THEN s
    ELSE [s EXCEPT !.len = s.len + 1, !.data = [s.data EXCEPT ![s.len] = s.next]]

\* Variant: one slot too many is kept free.
listenSerialNewChar_OneShort(s, leaveCharsAtEnd) ==
  IF s.len >= SERIAL_MAX_DATA_LENGTH - leaveCharsAtEnd - 1
    THEN s
    ELSE [s EXCEPT !.len = s.len + 1, !.data = [s.data EXCEPT ![s.len] = s.next]]

listenSerialNewChar(s, leaveCharsAtEnd) ==
  IF s.len >= SERIAL_MAX_DATA_LENGTH - leaveCharsAtEnd
    THEN s
    ELSE [s EXCEPT !.len = s.len + 1, !.data = [s.data EXCEPT ![s.len] = s.next]]

\* Variant: the start marker opens the message without being stored.
RECURSIVE listenLoop_SkipStart(_, _)
listenLoop_SkipStart(s, t) ==
  IF s.rx = << >>
    THEN s
    ELSE LET c == Head(s.rx)
             s1 == [s EXCEPT !.last = t, !.next = c, !.rx = Tail(s.rx)]
         IN IF s1.act = 1
              THEN IF c = SERIAL_MSG_END_CHAR
                     THEN [listenSerialNewChar(s1, 0) EXCEPT
                             !.act = 0, !.avail = 1, !.ret = TRUE,
                             !.got = Append(s1.got, c)]
                     ELSE listenLoop_SkipStart(
                            [listenSerialNewChar(s1, 1) EXCEPT
                               !.got = Append(s1.got, c)], t)
              ELSE IF c = SERIAL_MSG_BEGIN_CHAR
                     THEN listenLoop_SkipStart(
                            [s1 EXCEPT !.act = 1, !.got = << c >>], t)
                     ELSE listenLoop_SkipStart(s1, t)

\* Variant: a start marker inside a message starts the message again.
RECURSIVE listenLoop_Restart(_, _)
listenLoop_Restart(s, t) ==
  IF s.rx = << >>
    THEN s
    ELSE LET c == Head(s.rx)
             s1 == [s EXCEPT !.last = t, !.next = c, !.rx = Tail(s.rx)]
         IN IF c = SERIAL_MSG_BEGIN_CHAR
              THEN listenLoop_Restart(
                     [listenSerialNewChar([s1 EXCEPT !.len = 0], 1) EXCEPT
                        !.act = 1, !.got = << c >>], t)
              ELSE IF s1.act = 1
                     THEN IF c = SERIAL_MSG_END_CHAR
                            THEN [listenSerialNewChar(s1, 0) EXCEPT
                                    !.act = 0, !.avail = 1, !.ret = TRUE,
                                    !.got = Append(s1.got, c)]
                            ELSE listenLoop_Restart(
                                   [listenSerialNewChar(s1, 1) EXCEPT
                                      !.got = Append(s1.got, c)], t)
                     ELSE listenLoop_Restart(s1, t)

\* Variant: reading goes on after an end marker.
RECURSIVE listenLoop_ReadOn(_, _)
listenLoop_ReadOn(s, t) ==
  IF s.rx = << >>
    THEN s
    ELSE LET c == Head(s.rx)
             s1 == [s EXCEPT !.last = t, !.next = c, !.rx = Tail(s.rx)]
         IN IF s1.act = 1
              THEN IF c = SERIAL_MSG_END_CHAR
                     THEN listenLoop_ReadOn(
                            [listenSerialNewChar(s1, 0) EXCEPT
                               !.act = 0, !.avail = 1, !.ret = TRUE,
                               !.got = Append(s1.got, c)], t)
                     ELSE listenLoop_ReadOn(
                            [listenSerialNewChar(s1, 1) EXCEPT
                               !.got = Append(s1.got, c)], t)
              ELSE IF c = SERIAL_MSG_BEGIN_CHAR
                     THEN listenLoop_ReadOn(
                            [listenSerialNewChar(s1, 1) EXCEPT
                               !.act = 1, !.got = << c >>], t)
                     ELSE listenLoop_ReadOn(s1, t)

RECURSIVE listenLoop(_, _)
listenLoop(s, t) ==
  IF s.rx = << >>
    THEN s
    ELSE LET c == Head(s.rx)
             s1 == [s EXCEPT !.last = t, !.next = c, !.rx = Tail(s.rx)]
         IN IF s1.act = 1
              THEN IF c = SERIAL_MSG_END_CHAR
                     THEN [listenSerialNewChar(s1, 0) EXCEPT
                             !.act = 0, !.avail = 1, !.ret = TRUE,
                             !.got = Append(s1.got, c)]
                     ELSE listenLoop([listenSerialNewChar(s1, 1) EXCEPT
                                        !.got = Append(s1.got, c)], t)
              ELSE IF c = SERIAL_MSG_BEGIN_CHAR
                     THEN listenLoop([listenSerialNewChar(s1, 1) EXCEPT
                                        !.act = 1, !.got = << c >>], t)
                     ELSE listenLoop(s1, t)

\* Variant: a completed frame empties the receive queue.
listenSerial_DropRest(s, t) ==
  LET s1 == listenLoop(s, t)
  IN IF s1.ret
       THEN [s1 EXCEPT !.rx = << >>]
       ELSE IF Elapsed(t, s1.last) > SERIAL_TIMEOUT
              THEN [s1 EXCEPT !.act = 0, !.len = 0, !.got = << >>,
                              !.drop = s1.drop \o s1.got]
              ELSE s1

\* Variant: the buffer is discarded as soon as 1000 ms have passed.
listenSerial_AtTimeout(s, t) ==
  LET s1 == listenLoop(s, t)
  IN IF s1.ret
       THEN s1
       ELSE IF Elapsed(t, s1.last) >= SERIAL_TIMEOUT
              THEN [s1 EXCEPT !.act = 0, !.len = 0, !.got = << >>,
                              !.drop = s1.drop \o s1.got]
              ELSE s1

\* Variant: the timeout stops the message but keeps the buffered bytes.
listenSerial_KeepLength(s, t) ==
  LET s1 == listenLoop(s, t)
  IN IF s1.ret
       THEN s1
       ELSE IF Elapsed(t, s1.last) > SERIAL_TIMEOUT
              THEN [s1 EXCEPT !.act = 0, !.got = << >>,
                              !.drop = s1.drop \o s1.got]
              ELSE s1

listenSerial(s, t) ==
  LET s1 == listenLoop(s, t)
  IN IF s1.ret
       THEN s1
       ELSE IF Elapsed(t, s1.last) > SERIAL_TIMEOUT
              THEN [s1 EXCEPT !.act = 0, !.len = 0, !.got = << >>,
                              !.drop = s1.drop \o s1.got]
              ELSE s1

\* --------------------------------------------------------- channel timing
\* Channel state as a record [mask, last, chg].
\* Variant: the minimum off time must be exceeded, not just reached.
requestOn_Strict(ch, i, cmd, minOff, t) ==
  IF bitRead(cmd, i) = 1 /\ bitRead(ch.mask, i) = 0
       /\ Elapsed(t, ch.last[i]) > minOff
    THEN [ch EXCEPT !.mask = bitWrite(ch.mask, i, 1),
                    !.last = [ch.last EXCEPT ![i] = t],
                    !.chg = [ch.chg EXCEPT ![i] = FALSE]]
    ELSE ch

\* Variant: the channel is set to the mask bit, as in revision 1.0.0.
requestOn_SetToMask(ch, i, cmd, minOff, t) ==
  IF bitRead(cmd, i) = 1 /\ bitRead(ch.mask, i) = 0
       /\ Elapsed(t, ch.last[i]) >= minOff
    THEN [ch EXCEPT !.mask = bitWrite(ch.mask, i, 1),
                    !.last = [ch.last EXCEPT ![i] = t],
                    !.chg = [ch.chg EXCEPT ![i] = FALSE]]
    ELSE IF bitRead(cmd, i) = 0
           THEN [ch EXCEPT !.mask = bitWrite(ch.mask, i, 0)]
           ELSE ch

\* Variant: the minimum off time is not checked.
requestOn_NoDebounce(ch, i, cmd, minOff, t) ==
  IF bitRead(cmd, i) = 1 /\ bitRead(ch.mask, i) = 0
    THEN [ch EXCEPT !.mask = bitWrite(ch.mask, i, 1),
                    !.last = [ch.last EXCEPT ![i] = t],
                    !.chg = [ch.chg EXCEPT ![i] = FALSE]]
    ELSE ch

\* Variant: a channel that is already on is set again.
requestOn_NoOnTest(ch, i, cmd, minOff, t) ==
  IF bitRead(cmd, i) = 1 /\ Elapsed(t, ch.last[i]) >= minOff
    THEN [ch EXCEPT !.mask = bitWrite(ch.mask, i, 1),
                    !.last = [ch.last EXCEPT ![i] = t],
                    !.chg = [ch.chg EXCEPT ![i] = FALSE]]
    ELSE ch

\* Variant: one timer for all channels, restarted by every channel turned on.
requestOn_SharedTimer(ch, i, cmd, minOff, t) ==
  IF bitRead(cmd, i) = 1 /\ bitRead(ch.mask, i) = 0
       /\ Elapsed(t, ch.last[i]) >= minOff
    THEN [ch EXCEPT !.mask = bitWrite(ch.mask, i, 1),
                    !.last = [k \in Channels |-> t],
                    !.chg = [ch.chg EXCEPT ![i] = FALSE]]
    ELSE ch

\* Body of the loop of processSerial for channel i.
requestOn(ch, i, cmd, minOff, t) ==
  IF bitRead(cmd, i) = 1 /\ bitRead(ch.mask, i) = 0
       /\ Elapsed(t, ch.last[i]) >= minOff
    THEN [ch EXCEPT !.mask = bitWrite(ch.mask, i, 1),
                    !.last = [ch.last EXCEPT ![i] = t],
                    !.chg = [ch.chg EXCEPT ![i] = FALSE]]
    ELSE ch

RECURSIVE requestLoop(_, _, _, _, _)
requestLoop(ch, i, cmd, minOff, t) ==
  IF i >= NUM_CHANNELS
    THEN ch
    ELSE requestLoop(requestOn(ch, i, cmd, minOff, t), i + 1, cmd, minOff, t)

\* Variant: the channel is turned off as soon as the on time is reached.
checkReset_AtOnTime(ch, i, onTime, t) ==
  IF bitRead(ch.mask, i) = 1 /\ Elapsed(t, ch.last[i]) >= onTime
    THEN [ch EXCEPT !.mask = bitWrite(ch.mask, i, 0),
                    !.last = [ch.last EXCEPT ![i] = t]]
    ELSE ch

\* Variant: channels are never turned off.
checkReset_Never(ch, i, onTime, t) == ch

\* Variant: the poll counts the millisecond that is just beginning.
checkReset_OneEarly(ch, i, onTime, t) ==
  IF bitRead(ch.mask, i) = 1 /\ Elapsed(t + 1, ch.last[i]) > onTime
    THEN [ch EXCEPT !.mask = bitWrite(ch.mask, i, 0),
                    !.last = [ch.last EXCEPT ![i] = t]]
    ELSE ch

\* Body of the loop of checkResetChannels for channel i.
checkReset(ch, i, onTime, t) ==
  IF bitRead(ch.mask, i) = 1 /\ Elapsed(t, ch.last[i]) > onTime
    THEN [ch EXCEPT !.mask = bitWrite(ch.mask, i, 0),
                    !.last = [ch.last EXCEPT ![i] = t]]
    ELSE ch

RECURSIVE checkResetLoop(_, _, _, _)
checkResetLoop(ch, i, onTime, t) ==
  IF i >= NUM_CHANNELS
    THEN ch
    ELSE checkResetLoop(checkReset(ch, i, onTime, t), i + 1, onTime, t)

\* ------------------------------------------------------------ rotary master
totalChannels == 8 * MOTOR_SHIELD_COUNT

\* Places at which the store of 1 to rotaryDisabled, which is not volatile,
\* can reach memory relative to the two reads of the volatile rotaryCount:
\* before both, between them, after both.
StoreOrders == {0, 1, 2}

\* Globals after setup(), encoder pins at a detent, and loop() about to call
\* updateLcdMotorShield; pos is the source line about to be executed, order
\* the place of the store, held whether that store is still outstanding.
rotarySetup(order) ==
  [rotaryCount |-> 0, rotaryDisabled |-> 0, selectedShield |-> 0,
   selectedChannel |-> 0, aFlag |-> 0, bFlag |-> 0,
   pinA |-> 1, pinB |-> 1, pos |-> 231, order |-> order, held |-> FALSE]

rotaryUp(r) ==
  LET c == r.rotaryCount + 1
  IN [r EXCEPT !.rotaryCount =
                 IF c > totalChannels - 1 THEN totalChannels - 1 ELSE c]

rotaryDown(r) ==
  LET c == r.rotaryCount - 1
  IN [r EXCEPT !.rotaryCount = IF c < 0 THEN 0 ELSE c]

rotaryLongPress(r) == [r EXCEPT !.rotaryCount = 0]

\* PIND & 0xC: pin 2 is bit 2, pin 3 is bit 3.
pinReading(r) == 4 * r.pinA + 8 * r.pinB

\* The global "reading" is written before every use and is kept local here.
PinA(r) ==
  IF r.rotaryDisabled # 0
    THEN r
    ELSE LET reading == pinReading(r)
         IN IF reading = 12 /\ r.aFlag # 0
              THEN [rotaryUp(r) EXCEPT !.bFlag = 0, !.aFlag = 0]
              ELSE IF reading = 4
                     THEN [r EXCEPT !.bFlag = 1]
                     ELSE r

PinB(r) ==
  IF r.rotaryDisabled # 0
    THEN r
    ELSE LET reading == pinReading(r)
         IN IF reading = 12 /\ r.bFlag # 0
              THEN [rotaryDown(r) EXCEPT !.bFlag = 0, !.aFlag = 0]
              ELSE IF reading = 8
                     THEN [r EXCEPT !.aFlag = 1]
                     ELSE r

\* Integer division of C, which truncates towards zero.
CDiv(a, b) == IF a >= 0 THEN a \div b ELSE -((-a) \div b)

\* The outstanding store reaches memory once the program has passed place k.
storeLands(r, k) ==
  IF r.held /\ r.order = k
    THEN [r EXCEPT !.rotaryDisabled = 1, !.held = FALSE]
    ELSE r

\* ------------------------------------------------------------------- state
\* Variant: the channels count as switched off long before boot.
Boot_LongAgo(ee, addr) ==
  /\ now = 0
  /\ pc = "listen"
  /\ deviceAddress = addr
  /\ serialData = [k \in 0 .. (SERIAL_MAX_DATA_LENGTH - 1) |-> 0]
  /\ serialMessageActive = 0
  /\ serialMessageLength = 0
  /\ serialNextChar = 0
  /\ serialMessageAvailable = 0
  /\ serialLastTime = 0
  /\ setChannelLastTime = [i \in Channels |-> MillisRange - 100]
  /\ channelOnBitmask = 0
  /\ eeprom = ee
  /\ channelOnTime = loadChannelOnTime(ee)
  /\ minChannelOffTime = loadMinChannelOffTime(ee)
  /\ actuator = 0
  /\ frameRx = << >>
  /\ lastCheck = 0
  /\ cfgChanged = [i \in Channels |-> FALSE]

Boot(ee, addr) ==
  /\ now = 0
  /\ pc = "listen"
  /\ deviceAddress = addr
  /\ serialData = [k \in 0 .. (SERIAL_MAX_DATA_LENGTH - 1) |-> 0]
  /\ serialMessageActive = 0
  /\ serialMessageLength = 0
  /\ serialNextChar = 0
  /\ serialMessageAvailable = 0
  /\ serialLastTime = 0
  /\ setChannelLastTime = [i \in Channels |-> 0]
  /\ channelOnBitmask = 0
  /\ eeprom = ee
  /\ channelOnTime = loadChannelOnTime(ee)
  /\ minChannelOffTime = loadMinChannelOffTime(ee)
  /\ actuator = 0
  /\ frameRx = << >>
  /\ lastCheck = 0
  /\ cfgChanged = [i \in Channels |-> FALSE]

\* The variables outside the slave's control cycle at rest.
AuxInit ==
  /\ master = [boardNum |-> 0, pdata |-> 0, sent |-> TRUE]
  /\ rotary = rotarySetup(0)
  /\ motorChannels = 0
  /\ shiftRegister = 0
  /\ pwmPins = [k \in 0 .. 3 |-> 0]
  /\ uptime = 0
  /\ lastUptime = 0
  /\ setChannelsLastTime = 0

Init ==
  /\ AuxInit
  /\ \E img \in EepromImages, addr \in DeviceAddresses :
        Boot([k \in 0 .. 3 |-> img[k + 1]], addr)
  /\ wire = << >>
  /\ rx = << >>
  /\ out = << >>
  /\ eeLog = << >>
  /\ dropped = << >>
  /\ todo \in Scripts

\* ------------------------------------------------------------- environment
Send ==
  /\ pc = "listen"
  /\ wire = << >>
  /\ todo # << >>
  /\ wire' = Head(todo)
  /\ todo' = Tail(todo)
  /\ UNCHANGED << now, pc, rx, out, deviceAddress, serialVars,
                  channelVars, configVars, actuator, lastCheck >>
  /\ UNCHANGED auxVars

Min(a, b) == IF a < b THEN a ELSE b

Arrive(n) ==
  /\ pc = "listen"
  /\ wire # << >>
  /\ rx' = rx \o SubSeq(wire, 1, Min(n, Len(wire)))
  /\ wire' = SubSeq(wire, Min(n, Len(wire)) + 1, Len(wire))
  /\ UNCHANGED << now, pc, out, todo, deviceAddress, serialVars,
                  channelVars, configVars, actuator, lastCheck >>
  /\ UNCHANGED auxVars

Tick(d) ==
  /\ pc # "update"
  /\ now + d <= MaxTime
  /\ (now + d) - lastCheck <= MaxCycleGap
  /\ now' = (now + d) % MillisRange
  /\ UNCHANGED << pc, envVars, out, deviceAddress, serialVars,
                  channelVars, configVars, actuator, lastCheck >>
  /\ UNCHANGED auxVars

\* ------------------------------------------------------------------ loop()
ListenSerial ==
  /\ pc = "listen"
  /\ LET s == listenSerial([act |-> serialMessageActive,
                            len |-> serialMessageLength,
                            data |-> serialData,
                            next |-> serialNextChar,
                            avail |-> serialMessageAvailable,
                            last |-> serialLastTime,
                            rx |-> rx,
                            got |-> frameRx,
                            ret |-> FALSE,
                            drop |-> dropped], now)
     IN /\ serialMessageActive' = s.act
        /\ serialMessageLength' = s.len
        /\ serialData' = s.data
        /\ serialNextChar' = s.next
        /\ serialMessageAvailable' = s.avail
        /\ serialLastTime' = s.last
        /\ rx' = s.rx
        /\ frameRx' = s.got
        /\ dropped' = s.drop
  /\ pc' = "process"
  /\ UNCHANGED << now, wire, todo, out, deviceAddress, channelVars,
                  configVars, actuator, lastCheck >>
  /\ UNCHANGED auxVars

\* Address and command of the buffered message.
Addr == readSerialByte(serialData, 1)
Cmd == readSerialByte(serialData, 3)

\* Variant: the relayed copy lacks the last stored byte.
processSerial_NoEnd(cfg, ch, data, len, addr, t) ==
  LET a == readSerialByte(data, 1)
      cmd == readSerialByte(data, 3)
      c1 == IF a = 255 THEN setChannelOnTime(cfg, cmd) ELSE cfg
      c2 == IF a = 254 THEN setMinChannelOffTime(c1, cmd) ELSE c1
      h1 == IF a = addr THEN requestLoop(ch, 0, cmd, c2.off, t) ELSE ch
  IN [cfg |-> c2,
      ch |-> h1,
      written |-> [k \in 1 .. len - 1 |-> data[k - 1]] \o << CR, LF >>]

\* Variant: the mask is applied whatever the address.
processSerial_AnyAddress(cfg, ch, data, len, addr, t) ==
  LET a == readSerialByte(data, 1)
      cmd == readSerialByte(data, 3)
      c1 == IF a = 255 THEN setChannelOnTime(cfg, cmd) ELSE cfg
      c2 == IF a = 254 THEN setMinChannelOffTime(c1, cmd) ELSE c1
      h1 == requestLoop(ch, 0, cmd, c2.off, t)
  IN [cfg |-> c2,
      ch |-> h1,
      written |-> [k \in 1 .. len |-> data[k - 1]] \o << CR, LF >>]

\* Variant: a command for the own address is stored as the on time as well.
processSerial_StoreOnOwn(cfg, ch, data, len, addr, t) ==
  LET a == readSerialByte(data, 1)
      cmd == readSerialByte(data, 3)
      c1 == IF a = 255 \/ a = addr THEN setChannelOnTime(cfg, cmd) ELSE cfg
      c2 == IF a = 254 THEN setMinChannelOffTime(c1, cmd) ELSE c1
      h1 == IF a = addr THEN requestLoop(ch, 0, cmd, c2.off, t) ELSE ch
  IN [cfg |-> c2,
      ch |-> h1,
      written |-> [k \in 1 .. len |-> data[k - 1]] \o << CR, LF >>]

processSerial(cfg, ch, data, len, addr, t) ==
  LET a == readSerialByte(data, 1)
      cmd == readSerialByte(data, 3)
      c1 == IF a = 255 THEN setChannelOnTime(cfg, cmd) ELSE cfg
      c2 == IF a = 254 THEN setMinChannelOffTime(c1, cmd) ELSE c1
      h1 == IF a = addr THEN requestLoop(ch, 0, cmd, c2.off, t) ELSE ch
  IN [cfg |-> c2,
      ch |-> h1,
      written |-> [k \in 1 .. len |-> data[k - 1]] \o << CR, LF >>]

ProcessSerial ==
  /\ pc = "process"
  /\ IF serialMessageAvailable = 0
       THEN UNCHANGED << out, serialMessageAvailable, serialMessageLength,
                         frameRx, channelVars, configVars >>
       ELSE LET r == processSerial([ee |-> eeprom, on |-> channelOnTime,
                                    off |-> minChannelOffTime,
                                    log |-> eeLog],
                                   [mask |-> channelOnBitmask,
                                    last |-> setChannelLastTime,
                                    chg |-> cfgChanged],
                                   serialData, serialMessageLength,
                                   deviceAddress, now)
            IN /\ eeprom' = r.cfg.ee
               /\ eeLog' = r.cfg.log
               /\ channelOnTime' = r.cfg.on
               /\ minChannelOffTime' = r.cfg.off
               /\ channelOnBitmask' = r.ch.mask
               /\ setChannelLastTime' = r.ch.last
               /\ cfgChanged' =
                    [i \in Channels |->
                       IF bitRead(channelOnBitmask, i) = 1
                            /\ r.cfg.on # channelOnTime
                         THEN TRUE
                         ELSE r.ch.chg[i]]
               /\ out' = out \o r.written
               /\ serialMessageAvailable' = 0
               /\ serialMessageLength' = 0
               /\ frameRx' = << >>
  /\ pc' = "check"
  /\ UNCHANGED << now, envVars, deviceAddress, serialData,
                  serialMessageActive, serialNextChar, serialLastTime,
                  actuator, lastCheck, dropped >>
  /\ UNCHANGED auxVars

CheckResetChannels ==
  /\ pc = "check"
  /\ LET r == checkResetLoop([mask |-> channelOnBitmask,
                              last |-> setChannelLastTime,
                              chg |-> cfgChanged], 0, channelOnTime, now)
     IN /\ channelOnBitmask' = r.mask
        /\ setChannelLastTime' = r.last
  /\ lastCheck' = now
  /\ pc' = "update"
  /\ UNCHANGED << now, envVars, out, deviceAddress, serialVars,
                  configVars, actuator, cfgChanged >>
  /\ UNCHANGED auxVars

\* 8-bit bus behind the shift register, by channel (MOTOR1_A .. MOTOR4_B).
motorBus == << 2, 3, 1, 4, 5, 7, 0, 6 >>

RECURSIVE busLoop(_, _, _)
busLoop(v, i, outputChannels) ==
  IF i = NUM_CHANNELS
    THEN v
    ELSE busLoop(bitWrite(v, motorBus[i + 1], bitRead(outputChannels, i)),
                 i + 1, outputChannels)

\* Variant: the mask goes to the shift register as it is.
allChannelOutput_Straight(outputChannels, local) ==
  [shift |-> outputChannels,
   pwm |-> [k \in 0 .. 3 |->
              IF bitRead(outputChannels, 2 * k) = 1
                   \/ bitRead(outputChannels, 2 * k + 1) = 1
                THEN 255 ELSE 0]]

\* local is what the variable motorChannels holds before the first bitWrite.
allChannelOutput(outputChannels, local) ==
  [shift |-> busLoop(local, 0, outputChannels),
   pwm |-> [k \in 0 .. 3 |->
              IF bitRead(outputChannels, 2 * k) = 1
                   \/ bitRead(outputChannels, 2 * k + 1) = 1
                THEN 255 ELSE 0]]

\* Variant: the outputs are left as they are.
updateActiveChannels_Skip(mask, local, old) == old

updateActiveChannels(mask, local, old) ==
  LET r == allChannelOutput(mask, local)
  IN [mask |-> mask, shift |-> r.shift, pwm |-> r.pwm]

UpdateActiveChannels ==
  /\ pc = "update"
  /\ LET r == updateActiveChannels(channelOnBitmask, motorChannels,
                                   [mask |-> actuator, shift |-> shiftRegister,
                                    pwm |-> pwmPins])
     IN /\ actuator' = r.mask
        /\ shiftRegister' = r.shift
        /\ pwmPins' = r.pwm
  /\ pc' = "listen"
  /\ UNCHANGED << now, envVars, out, deviceAddress, serialVars,
                  channelVars, configVars, lastCheck >>
  /\ UNCHANGED << rotary, master, motorChannels, uptime, lastUptime,
                  setChannelsLastTime >>

\* Power cycle: RAM and the millisecond counter restart, the EEPROM and the
\* compile-time address stay, setup() runs again.
PowerCycle ==
  /\ pc = "listen"
  /\ now' = 0
  /\ pc' = "listen"
  /\ deviceAddress' = deviceAddress
  /\ serialData' = [k \in 0 .. (SERIAL_MAX_DATA_LENGTH - 1) |-> 0]
  /\ serialMessageActive' = 0
  /\ serialMessageLength' = 0
  /\ serialNextChar' = 0
  /\ serialMessageAvailable' = 0
  /\ serialLastTime' = 0
  /\ setChannelLastTime' = [i \in Channels |-> 0]
  /\ channelOnBitmask' = 0
  /\ eeprom' = eeprom
  /\ channelOnTime' = loadChannelOnTime(eeprom)
  /\ minChannelOffTime' = loadMinChannelOffTime(eeprom)
  /\ actuator' = 0
  /\ frameRx' = << >>
  /\ lastCheck' = 0
  /\ cfgChanged' = [i \in Channels |-> FALSE]
  /\ rx' = << >>
  /\ shiftRegister' = 0
  /\ pwmPins' = [k \in 0 .. 3 |-> 0]
  /\ UNCHANGED << wire, todo, out, eeLog, dropped >>
  /\ UNCHANGED << rotary, master, motorChannels, uptime, lastUptime,
                  setChannelsLastTime >>

\* The loop runs for d milliseconds without input and without effect: no
\* byte is waiting, and up to the last of these runs the frame timeout has
\* nothing to discard and no channel has run out of its on time.
Idle(d) ==
  /\ pc = "listen"
  /\ rx = << >>
  /\ now + d <= IdleMaxTime
  /\ (serialMessageActive = 1 \/ serialMessageLength > 0)
       => Elapsed(now + d - 1, serialLastTime) <= SERIAL_TIMEOUT
  /\ \A i \in Channels :
       bitRead(channelOnBitmask, i) = 1
         => Elapsed(now + d - 1, setChannelLastTime[i]) <= channelOnTime
  /\ now' = (now + d) % MillisRange
  /\ lastCheck' = (now + d - 1) % MillisRange
  /\ UNCHANGED << pc, envVars, out, deviceAddress, serialVars,
                  channelVars, configVars, actuator >>
  /\ UNCHANGED auxVars

Next ==
  \/ Send
  \/ \E n \in ArriveSizes : Arrive(n)
  \/ \E d \in TickSteps : Tick(d)
  \/ ListenSerial
  \/ ProcessSerial
  \/ CheckResetChannels
  \/ UpdateActiveChannels
  \/ PowerCycle

Spec == Init /\ [][Next]_vars

\* ------------------------------------------------- channels one by one
\* "<0104>" and "<0110>": channel 2 alone, channel 4 alone.
F0104 == << 60, 48, 49, 48, 52, 62 >>
F0110 == << 60, 48, 49, 49, 48, 62 >>

\* The master turns on one channel and, later, others of the same device.
PairScripts == { << F0104, F0194 >>, << F0110, F0104 >> }

InitPair ==
  /\ AuxInit
  /\ \E img \in EepromImages, addr \in DeviceAddresses :
        Boot([k \in 0 .. 3 |-> img[k + 1]], addr)
  /\ wire = << >>
  /\ rx = << >>
  /\ out = << >>
  /\ eeLog = << >>
  /\ dropped = << >>
  /\ todo \in PairScripts

SpecPair == InitPair /\ [][Next]_vars

\* ------------------------------------------------------- shortest times
\* EEPROM images with an on time or a minimum off time of 0.
ZeroImages ==
  { <<100, 0, 100, 0>>,
    <<100, 0, 100, 1>>,
    <<100, 1, 100, 0>> }

ZeroScripts == { << F0194, F0194 >>, << F0104, F0194 >> }

InitZero ==
  /\ AuxInit
  /\ \E img \in ZeroImages, addr \in DeviceAddresses :
        Boot([k \in 0 .. 3 |-> img[k + 1]], addr)
  /\ wire = << >>
  /\ rx = << >>
  /\ out = << >>
  /\ eeLog = << >>
  /\ dropped = << >>
  /\ todo \in ZeroScripts

SpecZero == InitZero /\ [][Next]_vars

\* ------------------------------------------------------ wrapping clock
\* Times, in milliseconds since boot, of the last byte and of the last
\* transition of every channel: early, and around the first and the second
\* wraparound of the counter.
ClockLasts ==
  { 0, 1, MillisRange - 1001, MillisRange - 1000, MillisRange - 81,
    MillisRange - 41, MillisRange - 10, MillisRange - 1, MillisRange,
    2 * MillisRange - 5 }

\* Times passed since then: around both minimum off times, both on times and
\* the frame timeout, and the largest the counter can tell.
ClockDists ==
  { 0, 9, 10, 11, 39, 40, 41, 79, 80, 81, 999, 1000, 1001, MillisRange - 1 }

\* Device 1 after running for lastUptime milliseconds, when the last byte
\* arrived and every channel last changed, and idle since; it either holds
\* the unfinished "<01" or finds "<0194>" in its receive buffer.
InitClock ==
  /\ \E last \in ClockLasts, d \in ClockDists :
        lastUptime = last /\ uptime = last + d
  /\ now = uptime % MillisRange
  /\ pc = "listen"
  /\ deviceAddress = 1
  /\ \E img \in EepromImages :
        /\ eeprom = [k \in 0 .. 3 |-> img[k + 1]]
        /\ channelOnTime = loadChannelOnTime(eeprom)
        /\ minChannelOffTime = loadMinChannelOffTime(eeprom)
  /\ serialLastTime = lastUptime % MillisRange
  /\ setChannelLastTime = [i \in Channels |-> lastUptime % MillisRange]
  /\ channelOnBitmask \in {0, 4}
  /\ actuator = channelOnBitmask
  /\ \/ /\ serialMessageActive = 1
        /\ serialMessageLength = 3
        /\ serialData = [k \in 0 .. (SERIAL_MAX_DATA_LENGTH - 1) |->
                           IF k < 3 THEN P01[k + 1] ELSE 0]
        /\ serialNextChar = 49
        /\ frameRx = P01
        /\ rx = << >>
     \/ /\ serialMessageActive = 0
        /\ serialMessageLength = 0
        /\ serialData = [k \in 0 .. (SERIAL_MAX_DATA_LENGTH - 1) |-> 0]
        /\ serialNextChar = 0
        /\ frameRx = << >>
        /\ rx = F0194
  /\ serialMessageAvailable = 0
  /\ lastCheck = now
  /\ cfgChanged = [i \in Channels |-> FALSE]
  /\ wire = << >>
  /\ out = << >>
  /\ todo = << >>
  /\ eeLog = << >>
  /\ dropped = << >>
  /\ master = [boardNum |-> 0, pdata |-> 0, sent |-> TRUE]
  /\ rotary = rotarySetup(0)
  /\ motorChannels = 0
  /\ shiftRegister = allChannelOutput(channelOnBitmask, 0).shift
  /\ pwmPins = allChannelOutput(channelOnBitmask, 0).pwm
  /\ setChannelsLastTime = 0

NextClock ==
  \/ ListenSerial
  \/ ProcessSerial
  \/ CheckResetChannels
  \/ UpdateActiveChannels

SpecClock == InitClock /\ [][NextClock]_vars

\* ------------------------------------------------------- revision 1.0.0
\* "<0006>" and "<0000>".
F0006 == << 60, 48, 48, 48, 54, 62 >>
F0000 == << 60, 48, 48, 48, 48, 62 >>

\* What the master transmits after "<0005>".
RevScripts == { << F0006 >>, << F0000 >>, << F0194 >> }

\* Uptimes at which "<0005>" is dispatched: well before the counter wraps,
\* and 1001, 1000, 500 and 1 ms before it wraps.
RevStarts ==
  { MillisRange - 2500, MillisRange - 1001, MillisRange - 1000,
    MillisRange - 500, MillisRange - 1 }

\* Times after the last channel command at which the master transmits again.
RevResendAfter == { 0, 499, 999 }

\* Amounts by which the clock advances between two control cycles.
RevSteps == { 1, 499 }

\* Output state as a record [last, mask, shift, pwm].
\* Variant: channels are only ever added, as in revision 1.1.0.
setChannelsActive_Add(o, channelBitmask, t, local) ==
  LET m == [i \in Channels |->
              IF bitRead(o.mask, i) = 1 THEN 1 ELSE bitRead(channelBitmask, i)]
      v == m[0] + 2 * m[1] + 4 * m[2] + 8 * m[3] + 16 * m[4] + 32 * m[5]
             + 64 * m[6] + 128 * m[7]
      r == allChannelOutput(v, local)
  IN [last |-> t, mask |-> v, shift |-> r.shift, pwm |-> r.pwm]

setChannelsActive(o, channelBitmask, t, local) ==
  LET r == allChannelOutput(channelBitmask, local)
  IN [last |-> t, mask |-> channelBitmask, shift |-> r.shift, pwm |-> r.pwm]

\* Revision 1.0.0 compares millis() with a sum of unsigned long.
checkResetChannelsV1(o, t, local) ==
  IF t < (o.last + CHANNEL_RESET_TIME) % MillisRange
    THEN o
    ELSE setChannelsActive(o, 0, t, local)

processSerialV1(o, data, len, addr, t, local) ==
  LET a == readSerialByte(data, 1)
      cmd == readSerialByte(data, 3)
  IN [o |-> IF a = addr THEN setChannelsActive(o, cmd, t, local) ELSE o,
      written |-> [k \in 1 .. len |-> data[k - 1]] \o << CR, LF >>]

Outputs ==
  [last |-> setChannelsLastTime, mask |-> actuator, shift |-> shiftRegister,
   pwm |-> pwmPins]

\* Variables revision 1.0.0 does not have.
revUnused ==
  << setChannelLastTime, channelOnTime, minChannelOffTime, channelOnBitmask,
     eeprom, cfgChanged, eeLog, master, motorChannels, rotary >>

ProcessSerialV1 ==
  /\ pc = "process"
  /\ IF serialMessageAvailable = 0
       THEN UNCHANGED << out, serialMessageAvailable, serialMessageLength,
                         frameRx, setChannelsLastTime, actuator,
                         shiftRegister, pwmPins, lastUptime >>
       ELSE LET r == processSerialV1(Outputs, serialData, serialMessageLength,
                                     deviceAddress, now, motorChannels)
            IN /\ setChannelsLastTime' = r.o.last
               /\ actuator' = r.o.mask
               /\ shiftRegister' = r.o.shift
               /\ pwmPins' = r.o.pwm
               /\ lastUptime' = IF readSerialByte(serialData, 1) = deviceAddress
                                  THEN uptime ELSE lastUptime
               /\ out' = out \o r.written
               /\ serialMessageAvailable' = 0
               /\ serialMessageLength' = 0
               /\ frameRx' = << >>
  /\ pc' = "check"
  /\ UNCHANGED << now, uptime, envVars, deviceAddress, serialData,
                  serialMessageActive, serialNextChar, serialLastTime,
                  lastCheck, dropped, revUnused >>

CheckResetChannelsV1 ==
  /\ pc = "check"
  /\ LET o == checkResetChannelsV1(Outputs, now, motorChannels)
     IN /\ setChannelsLastTime' = o.last
        /\ actuator' = o.mask
        /\ shiftRegister' = o.shift
        /\ pwmPins' = o.pwm
        /\ lastUptime' = IF now < (setChannelsLastTime + CHANNEL_RESET_TIME)
                                    % MillisRange
                           THEN lastUptime ELSE uptime
  /\ lastCheck' = now
  /\ pc' = "listen"
  /\ UNCHANGED << now, uptime, envVars, out, deviceAddress, serialVars,
                  revUnused >>

\* The master transmits its next frame while channels are energized.
SendV1 ==
  /\ pc = "listen"
  /\ wire = << >>
  /\ rx = << >>
  /\ todo # << >>
  /\ actuator # 0
  /\ uptime - lastUptime \in RevResendAfter
  /\ wire' = Head(todo)
  /\ todo' = Tail(todo)
  /\ UNCHANGED << now, uptime, pc, rx, out, deviceAddress, serialVars,
                  setChannelsLastTime, actuator, shiftRegister, pwmPins,
                  lastUptime, lastCheck, revUnused >>

\* d milliseconds pass after a control cycle; the cycles that run in between
\* find no byte and do not reach the reset.
Elapse(d) ==
  /\ pc = "listen"
  /\ lastCheck = now
  /\ wire = << >>
  /\ rx = << >>
  /\ uptime + d <= MillisRange + RevOverrun
  /\ \A k \in 1 .. (d - 1) :
        (now + k) % MillisRange
          < (setChannelsLastTime + CHANNEL_RESET_TIME) % MillisRange
  /\ now' = (now + d) % MillisRange
  /\ uptime' = uptime + d
  /\ UNCHANGED << pc, envVars, out, deviceAddress, serialVars,
                  setChannelsLastTime, actuator, shiftRegister, pwmPins,
                  lastUptime, lastCheck, revUnused >>

\* The revision 1.0.0 device, running since boot with nothing received and
\* every second's reset done, finds "<0005>" in its receive buffer.
InitRev1 ==
  /\ uptime \in RevStarts
  /\ lastUptime = uptime
  /\ now = uptime % MillisRange
  /\ setChannelsLastTime = now
  /\ pc = "listen"
  /\ deviceAddress = 0
  /\ serialData = [k \in 0 .. (SERIAL_MAX_DATA_LENGTH - 1) |-> 0]
  /\ serialMessageActive = 0
  /\ serialMessageLength = 0
  /\ serialNextChar = 0
  /\ serialMessageAvailable = 0
  /\ serialLastTime = now
  /\ actuator = 0
  /\ shiftRegister = 0
  /\ pwmPins = [k \in 0 .. 3 |-> 0]
  /\ frameRx = << >>
  /\ lastCheck = now
  /\ wire = << >>
  /\ rx = F0005
  /\ out = << >>
  /\ todo \in RevScripts
  /\ dropped = << >>
  /\ setChannelLastTime = [i \in Channels |-> 0]
  /\ channelOnBitmask = 0
  /\ eeprom = [k \in 0 .. 3 |-> 255]
  /\ channelOnTime = 0
  /\ minChannelOffTime = 0
  /\ cfgChanged = [i \in Channels |-> FALSE]
  /\ eeLog = << >>
  /\ master = [boardNum |-> 0, pdata |-> 0, sent |-> TRUE]
  /\ rotary = rotarySetup(0)
  /\ motorChannels = 0

NextRev1 ==
  \/ SendV1
  \/ \E n \in ArriveSizes : Arrive(n)
  \/ \E d \in RevSteps : Elapse(d)
  \/ ListenSerial
  \/ ProcessSerialV1
  \/ CheckResetChannelsV1

SpecRev1 == InitRev1 /\ [][NextRev1]_vars

\* ----------------------------------------------------------- output stage
\* A device about to call updateActiveChannels, with any mask to put out and
\* any value in the uninitialised local of allChannelOutput.
InitOutput ==
  /\ now = 0
  /\ pc = "update"
  /\ deviceAddress = 0
  /\ serialData = [k \in 0 .. (SERIAL_MAX_DATA_LENGTH - 1) |-> 0]
  /\ serialMessageActive = 0
  /\ serialMessageLength = 0
  /\ serialNextChar = 0
  /\ serialMessageAvailable = 0
  /\ serialLastTime = 0
  /\ setChannelLastTime = [i \in Channels |-> 0]
  /\ channelOnBitmask \in 0 .. 255
  /\ eeprom = [k \in 0 .. 3 |-> 255]
  /\ channelOnTime = loadChannelOnTime(eeprom)
  /\ minChannelOffTime = loadMinChannelOffTime(eeprom)
  /\ actuator = 0
  /\ frameRx = << >>
  /\ lastCheck = 0
  /\ cfgChanged = [i \in Channels |-> FALSE]
  /\ wire = << >>
  /\ rx = << >>
  /\ out = << >>
  /\ todo = << >>
  /\ eeLog = << >>
  /\ dropped = << >>
  /\ master = [boardNum |-> 0, pdata |-> 0, sent |-> TRUE]
  /\ rotary = rotarySetup(0)
  /\ motorChannels \in 0 .. 255
  /\ shiftRegister = 0
  /\ pwmPins = [k \in 0 .. 3 |-> 0]
  /\ uptime = 0
  /\ lastUptime = 0
  /\ setChannelsLastTime = 0

NextOutput == UpdateActiveChannels

SpecOutput == InitOutput /\ [][NextOutput]_vars

\* ------------------------------------------------------- master and decoding
\* Print::print(n, HEX) for a byte: upper-case digits, no leading zero.
hexChar(d) == IF d < 10 THEN d + 48 ELSE d + 65 - 10
\* Variant: every value is written with two digits.
hexText_TwoDigits(v) == << hexChar(v \div 16), hexChar(v % 16) >>

hexText(v) ==
  IF v < 16 THEN << hexChar(v) >>
            ELSE << hexChar(v \div 16), hexChar(v % 16) >>

\* The bytes sendMotorShieldCommand writes, println's CR LF included.
sendMotorShieldCommand(boardNum, pdata) ==
  << 60 >>
    \o (IF boardNum < 16 THEN << 48 >> ELSE << >>) \o hexText(boardNum)
    \o (IF pdata < 16 THEN << 48 >> ELSE << >>) \o hexText(pdata)
    \o << 62, CR, LF >>

\* Characters that stand for the classes charToNib tells apart: the ends of
\* the three digit ranges, their outer neighbours, and the extremes.
ProbeChars == {0, 47, 48, 57, 58, 64, 65, 70, 71, 96, 97, 102, 103, 255}
HexChars == (48 .. 57) \cup (65 .. 70) \cup (97 .. 102)

\* Pairs of payload characters examined in one position of the frame: every
\* byte value next to every probe character, and every pair of hex digits.
ProbePairs ==
  ((0 .. 255) \X ProbeChars) \cup (ProbeChars \X (0 .. 255))
    \cup (HexChars \X HexChars)

\* What the other position of the frame holds meanwhile: "00" or "fF".
OtherPairs == { << 48, 48 >>, << 102, 70 >> }

\* EEPROM image of the device that decodes: on time 80 ms, no minimum off
\* time, so that a mask for the device takes effect at once.
CodecImage == << 100, 8, 100, 0 >>

\* The master calls sendMotorShieldCommand once.
SendCommand ==
  /\ pc = "listen"
  /\ ~ master.sent
  /\ wire' = sendMotorShieldCommand(master.boardNum, master.pdata)
  /\ master' = [master EXCEPT !.sent = TRUE]
  /\ UNCHANGED << now, pc, rx, out, todo, deviceAddress, serialVars,
                  channelVars, configVars, actuator, lastCheck,
                  motorChannels, shiftRegister, pwmPins, uptime, lastUptime,
                  setChannelsLastTime, rotary >>

\* --------------------------------------------- rotary master: loop()
\* The variables of the slave, which the rotary master does not touch.
slaveVars ==
  << now, pc, rx, out, todo, deviceAddress, serialVars, channelVars,
     configVars, actuator, lastCheck, master, motorChannels, shiftRegister,
     pwmPins, uptime, lastUptime, setChannelsLastTime >>

\* updateLcdMotorShield, rotaryDisabled = 1.
SetRotaryDisabled ==
  /\ rotary.pos = 231
  /\ rotary' = storeLands([rotary EXCEPT !.held = TRUE, !.pos = 232], 0)
  /\ UNCHANGED << wire, slaveVars >>

\* selectedChannel = rotaryCount % 8.
ReadChannel ==
  /\ rotary.pos = 232
  /\ rotary' = storeLands([rotary EXCEPT
                             !.selectedChannel = rotary.rotaryCount % 8,
                             !.pos = 233], 1)
  /\ UNCHANGED << wire, slaveVars >>

\* selectedShield = (rotaryCount - selectedChannel) / 8.
ReadShield ==
  /\ rotary.pos = 233
  /\ rotary' = storeLands([rotary EXCEPT
                             !.selectedShield =
                                CDiv(rotary.rotaryCount
                                       - rotary.selectedChannel, 8) % 256,
                             !.pos = 235], 2)
  /\ UNCHANGED << wire, slaveVars >>

\* The eight calls on the display.
LcdPrint ==
  /\ rotary.pos = 235
  /\ rotary' = [rotary EXCEPT !.pos = 243]
  /\ UNCHANGED << wire, slaveVars >>

\* rotaryDisabled = 0, end of updateLcdMotorShield.
ClearRotaryDisabled ==
  /\ rotary.pos = 243
  /\ rotary' = [rotary EXCEPT !.rotaryDisabled = 0, !.pos = 262]
  /\ UNCHANGED << wire, slaveVars >>

\* What testNote writes: three notes of a command and its release.
testNote(slaveAddr, channelIndex) ==
  LET note == sendMotorShieldCommand(slaveAddr, (2 ^ channelIndex) % 256)
                \o sendMotorShieldCommand(slaveAddr, 0)
  IN note \o note \o note

\* btnRot.tick(): nothing, a click or the start of a long press.
ButtonTick(e) ==
  /\ rotary.pos = 262
  /\ CASE e = "click" ->
            /\ wire' = testNote(rotary.selectedShield, rotary.selectedChannel)
            /\ rotary' = [rotary EXCEPT !.pos = 263]
       [] e = "long" ->
            /\ wire' = wire
            /\ rotary' = [rotaryLongPress(rotary) EXCEPT !.pos = 263]
       [] OTHER ->
            /\ wire' = wire
            /\ rotary' = [rotary EXCEPT !.pos = 263]
  /\ UNCHANGED slaveVars

\* delay(100), end of loop(); what was written has left for the slaves.
Delay ==
  /\ rotary.pos = 263
  /\ rotary' = [rotary EXCEPT !.pos = 231]
  /\ wire' = << >>
  /\ UNCHANGED slaveVars

\* Pin 2 rises: interrupt 0 runs PinA before loop() continues.
RiseA ==
  /\ rotary.pinA = 0
  /\ rotary' = PinA([rotary EXCEPT !.pinA = 1])
  /\ UNCHANGED << wire, slaveVars >>

\* Pin 3 rises: interrupt 1 runs PinB before loop() continues.
RiseB ==
  /\ rotary.pinB = 0
  /\ rotary' = PinB([rotary EXCEPT !.pinB = 1])
  /\ UNCHANGED << wire, slaveVars >>

FallA ==
  /\ rotary.pinA = 1
  /\ rotary' = [rotary EXCEPT !.pinA = 0]
  /\ UNCHANGED << wire, slaveVars >>

FallB ==
  /\ rotary.pinB = 1
  /\ rotary' = [rotary EXCEPT !.pinB = 0]
  /\ UNCHANGED << wire, slaveVars >>

\* The rotary master after setup(), built with any of the store orders, next
\* to a slave that has just booted.
InitRotary ==
  /\ Boot([k \in 0 .. 3 |-> CodecImage[k + 1]], 0)
  /\ wire = << >>
  /\ rx = << >>
  /\ out = << >>
  /\ eeLog = << >>
  /\ dropped = << >>
  /\ todo = << >>
  /\ master = [boardNum |-> 0, pdata |-> 0, sent |-> TRUE]
  /\ motorChannels = 0
  /\ shiftRegister = 0
  /\ pwmPins = [k \in 0 .. 3 |-> 0]
  /\ uptime = 0
  /\ lastUptime = 0
  /\ setChannelsLastTime = 0
  /\ \E order \in StoreOrders : rotary = rotarySetup(order)

NextRotary ==
  \/ SetRotaryDisabled
  \/ ReadChannel
  \/ ReadShield
  \/ LcdPrint
  \/ ClearRotaryDisabled
  \/ \E e \in {"none", "click", "long"} : ButtonTick(e)
  \/ Delay
  \/ RiseA
  \/ RiseB
  \/ FallA
  \/ FallB

SpecRotary == InitRotary /\ [][NextRotary]_vars

\* A device with nothing received yet and one command the master is about
\* to send.
InitCodec ==
  /\ Boot([k \in 0 .. 3 |-> CodecImage[k + 1]], 0)
  /\ wire = << >>
  /\ rx = << >>
  /\ out = << >>
  /\ eeLog = << >>
  /\ dropped = << >>
  /\ todo = << >>
  /\ master \in [boardNum : 0 .. 255, pdata : 0 .. 255, sent : {FALSE}]
  /\ rotary = rotarySetup(0)
  /\ motorChannels = 0
  /\ shiftRegister = 0
  /\ pwmPins = [k \in 0 .. 3 |-> 0]
  /\ uptime = 0
  /\ lastUptime = 0
  /\ setChannelsLastTime = 0

NextCodec ==
  \/ SendCommand
  \/ \E n \in ArriveSizes : Arrive(n)
  \/ ListenSerial
  \/ ProcessSerial
  \/ CheckResetChannels
  \/ UpdateActiveChannels

SpecCodec == InitCodec /\ [][NextCodec]_vars

\* A device whose receive buffer holds one frame with arbitrary characters in
\* the address or in the command position.
InitHex ==
  /\ Boot([k \in 0 .. 3 |-> CodecImage[k + 1]], 0)
  /\ AuxInit
  /\ wire = << >>
  /\ out = << >>
  /\ eeLog = << >>
  /\ dropped = << >>
  /\ todo = << >>
  /\ \E p \in ProbePairs, o \in OtherPairs :
        \/ rx = << 60, p[1], p[2], o[1], o[2], 62 >>
        \/ rx = << 60, o[1], o[2], p[1], p[2], 62 >>

NextHex ==
  \/ ListenSerial
  \/ ProcessSerial
  \/ CheckResetChannels
  \/ UpdateActiveChannels

SpecHex == InitHex /\ [][NextHex]_vars

\* The device from boot to the end of a run of decoder transmissions, with
\* idle pauses and without power cycles.
InitDecoder ==
  /\ AuxInit
  /\ \E img \in EepromImages, addr \in DeviceAddresses :
        Boot([k \in 0 .. 3 |-> img[k + 1]], addr)
  /\ wire = << >>
  /\ rx = << >>
  /\ out = << >>
  /\ eeLog = << >>
  /\ dropped = << >>
  /\ todo \in DecoderScripts

NextDecoder ==
  \/ Send
  \/ \E n \in ArriveSizes : Arrive(n)
  \/ \E d \in TickSteps : Tick(d)
  \/ \E d \in IdleSteps : Idle(d)
  \/ ListenSerial
  \/ ProcessSerial
  \/ CheckResetChannels
  \/ UpdateActiveChannels

SpecDecoder == InitDecoder /\ [][NextDecoder]_vars

\* =================================================================== claims
\* Steps of loop(), recognised by the program position.
ProcessStep == pc = "process" /\ pc' = "check"
DispatchStep == ProcessStep /\ serialMessageAvailable = 1
CheckStep == pc = "check" /\ pc' = "update"

On(i) == bitRead(channelOnBitmask, i) = 1
OnAfter(i) == bitRead(channelOnBitmask', i) = 1

\* C1: a completed frame of at most 32 bytes is written to the outbound
\* stream exactly as received, start marker through end marker, followed by
\* one line terminator, whatever address it decodes to.
C1_RelayExact ==
  [][ (DispatchStep /\ Len(frameRx) <= 32)
        => out' = out \o frameRx \o << CR, LF >> ]_vars

\* A 32-byte frame has been relayed whole by a device it is not addressed to.
C1_Witness ==
  /\ pc = "check"
  /\ deviceAddress = 0
  /\ out = F32 \o << CR, LF >>

\* C2: a frame for the device address turns on every requested channel that
\* is off and whose minimum off time has elapsed, and turns on no channel
\* whose bit is 0; "<0194>" at address 1 turns on exactly channels 2, 4, 7.
C2_RequestMask ==
  [][ (DispatchStep /\ Addr = deviceAddress)
        => /\ \A i \in Channels :
                (bitRead(Cmd, i) = 1 /\ ~On(i)
                   /\ Elapsed(now, setChannelLastTime[i]) >= minChannelOffTime')
                  => OnAfter(i)
           /\ \A i \in Channels :
                (bitRead(Cmd, i) = 0 /\ ~On(i)) => ~OnAfter(i)
           /\ (frameRx = F0194 /\ deviceAddress = 1 /\ channelOnBitmask = 0
                 /\ \A i \in Channels :
                      Elapsed(now, setChannelLastTime[i]) >= minChannelOffTime)
                => channelOnBitmask' = 148 ]_vars

\* "<0194>" has turned on channels 2, 4 and 7 of device 1.
C2_Witness ==
  /\ pc = "check"
  /\ deviceAddress = 1
  /\ out = F0194 \o << CR, LF >>
  /\ channelOnBitmask = 148

\* C3: a frame whose address differs from the device address changes no
\* channel's energized flag and no channel's last transition time.
C3_OtherAddressNoChannelChange ==
  [][ (DispatchStep /\ Addr # deviceAddress)
        => (channelOnBitmask' = channelOnBitmask
              /\ setChannelLastTime' = setChannelLastTime) ]_vars

\* Device 0 has dispatched "<0194>" while one of its channels was on.
C3_Witness ==
  /\ pc = "check"
  /\ deviceAddress = 0
  /\ out = F0005 \o << CR, LF >> \o F0194 \o << CR, LF >>
  /\ serialLastTime = now
  /\ channelOnBitmask = 5

C5_Debounce ==
  [][ /\ (DispatchStep /\ Addr = deviceAddress) =>
           \A i \in Channels :
              (bitRead(Cmd, i) = 1 /\ ~On(i)) =>
                 IF Elapsed(now, setChannelLastTime[i]) >= minChannelOffTime'
                   THEN OnAfter(i) /\ setChannelLastTime'[i] = now
                   ELSE ~OnAfter(i)
                          /\ setChannelLastTime'[i] = setChannelLastTime[i]
      /\ \A i \in Channels :
           (~On(i) /\ OnAfter(i))
             => (DispatchStep
                   /\ Elapsed(now, setChannelLastTime[i]) >= minChannelOffTime')
    ]_vars

\* Channel 2 went on at 10, off at T = 21 and was accepted again at
\* T + minChannelOffTime = 31.
C5_Witness ==
  /\ pc = "check"
  /\ deviceAddress = 1
  /\ channelOnTime = 10
  /\ minChannelOffTime = 10
  /\ out = F0194 \o << CR, LF >> \o F0194 \o << CR, LF >>
  /\ On(2)
  /\ setChannelLastTime[2] = 31
  /\ now = 31

\* C6: with channelOnTime unchanged since the channel went on and
\* checkResetChannels run at most MaxCycleGap apart, a channel is never on
\* later than MaxCycleGap after its on time ran out; checkResetChannels turns
\* a channel off exactly when now - last > channelOnTime.
C6_Expiry ==
  [][ /\ \A i \in Channels :
           (OnAfter(i) /\ ~cfgChanged'[i])
             => Elapsed(now', setChannelLastTime'[i])
                  <= channelOnTime' + MaxCycleGap
      /\ CheckStep =>
           \A i \in Channels :
              On(i) => (~OnAfter(i)
                          <=> Elapsed(now, setChannelLastTime[i]) > channelOnTime)
    ]_vars

\* Channel 2 has just been turned off by the expiry poll, one millisecond
\* after its on time ran out.
C6_Witness ==
  /\ pc = "update"
  /\ bitRead(actuator, 2) = 1
  /\ ~On(2)
  /\ setChannelLastTime[2] = now
  /\ now = 21
  /\ channelOnTime = 10
  /\ todo # << >>

\* C7: an on-request for a channel that is on leaves it on and leaves its
\* last transition time as it was.
C7_Idempotent ==
  [][ (DispatchStep /\ Addr = deviceAddress)
        => \A i \in Channels :
              (bitRead(Cmd, i) = 1 /\ On(i))
                => (OnAfter(i)
                      /\ setChannelLastTime'[i] = setChannelLastTime[i]) ]_vars

\* A second "<0194>" has been dispatched while channel 2 was on.
C7_Witness ==
  /\ pc = "check"
  /\ deviceAddress = 1
  /\ out = F0194 \o << CR, LF >> \o F0194 \o << CR, LF >>
  /\ serialLastTime = now
  /\ On(2)
  /\ setChannelLastTime[2] < now

\* C8: a frame with address 255 and command c sets channelOnTime to c*10,
\* writes 100 to EEPROM offset 0 and c to offset 1, and leaves
\* minChannelOffTime and offsets 2 and 3 as they were.
C8_SetOnTime ==
  [][ (DispatchStep /\ Addr = 255)
        => /\ channelOnTime' = Cmd * 10
           /\ eeprom'[0] = 100
           /\ eeprom'[1] = Cmd
           /\ minChannelOffTime' = minChannelOffTime
           /\ eeprom'[2] = eeprom[2]
           /\ eeprom'[3] = eeprom[3] ]_vars

\* "<FF19>" has been dispatched on a device with an erased EEPROM.
C8_Witness ==
  /\ pc = "check"
  /\ out = FFF19 \o << CR, LF >>
  /\ channelOnTime = 250
  /\ eeprom = [k \in 0 .. 3 |-> << 100, 25, 255, 255 >>[k + 1]]

\* C9: a frame with address 254 and command c sets minChannelOffTime to
\* c*10, writes 100 to EEPROM offset 2 and c to offset 3, and leaves
\* channelOnTime and offsets 0 and 1 as they were.
C9_SetMinOffTime ==
  [][ (DispatchStep /\ Addr = 254)
        => /\ minChannelOffTime' = Cmd * 10
           /\ eeprom'[2] = 100
           /\ eeprom'[3] = Cmd
           /\ channelOnTime' = channelOnTime
           /\ eeprom'[0] = eeprom[0]
           /\ eeprom'[1] = eeprom[1] ]_vars

\* "<FE02>" has been dispatched on a device with an erased EEPROM.
C9_Witness ==
  /\ pc = "check"
  /\ out = FFE02 \o << CR, LF >>
  /\ minChannelOffTime = 20
  /\ eeprom = [k \in 0 .. 3 |-> << 255, 255, 100, 2 >>[k + 1]]

\* C10: a power cycle, which reloads both times from the EEPROM, leaves
\* channelOnTime and minChannelOffTime as they were in memory before it.
C10_ReloadKeepsConfig ==
  [][ PowerCycle
        => (channelOnTime' = channelOnTime
              /\ minChannelOffTime' = minChannelOffTime) ]_vars

\* The device has been power cycled after "<FF19>" on an erased EEPROM and
\* has reloaded an on time of 250 ms.
C10_Witness ==
  /\ out = FFF19 \o << CR, LF >>
  /\ serialData[0] = 0
  /\ now = 0
  /\ channelOnTime = 250
  /\ minChannelOffTime = 40

\* C11: at boot channelOnTime is store[1]*10 if store[0] = 100 and 80
\* otherwise, minChannelOffTime is store[3]*10 if store[2] = 100 and 40
\* otherwise, each decided by its own flag.
BootLoaded ==
  /\ channelOnTime = (IF eeprom[0] = 100 THEN eeprom[1] * 10 ELSE 80)
  /\ minChannelOffTime = (IF eeprom[2] = 100 THEN eeprom[3] * 10 ELSE 40)

C11_BootLoad == BootLoaded /\ [][PowerCycle => BootLoaded']_vars

\* The device has booted with only the off-time flag set: on time 80 by
\* default, minimum off time 20 from the store.
C11_Witness ==
  /\ now = 0
  /\ pc = "listen"
  /\ serialData[0] = 0
  /\ out = FFE02 \o << CR, LF >>
  /\ eeprom = [k \in 0 .. 3 |-> << 255, 255, 100, 2 >>[k + 1]]
  /\ channelOnTime = 80
  /\ minChannelOffTime = 20

\* C12: the EEPROM is written only in the dispatch of a frame with address
\* 254 or 255, and only at offsets 0..3; boot, other frames, the frame
\* timeout and the expiry poll write nothing.
C12_StoreWrittenOnlyByConfigFrames ==
  [][ /\ (eeLog' # eeLog \/ eeprom' # eeprom)
           => (DispatchStep /\ Addr \in {254, 255})
      /\ eeprom' # eeprom => eeLog' # eeLog
      /\ \A k \in 1 .. Len(eeLog') : eeLog'[k] \in 0 .. 3 ]_vars

\* "<FE02>" wrote offsets 2 and 3; the boot before it and the dispatch of
\* "<0194>" to the own address after it wrote nothing.
C12_Witness ==
  /\ pc = "check"
  /\ deviceAddress = 1
  /\ out = FFE02 \o << CR, LF >> \o F0194 \o << CR, LF >>
  /\ channelOnBitmask = 148
  /\ eeLog = << 2, 3 >>

\* C13: a frame with address 254 or 255 turns no channel on and changes no
\* channel's last transition time, whatever the device address.
C13_ReservedNeverOwn ==
  [][ (DispatchStep /\ Addr \in {254, 255})
        => (/\ \A i \in Channels : ~On(i) => ~OnAfter(i)
            /\ setChannelLastTime' = setChannelLastTime) ]_vars

\* Hex digits and their values, as the wire format defines them.
IsHex(c) == c \in (48 .. 57) \cup (65 .. 70) \cup (97 .. 102)
HexDigit(c) == IF c <= 57 THEN c - 48 ELSE IF c <= 70 THEN c - 55 ELSE c - 87
WellFormed(f) == Len(f) = 6 /\ \A k \in 2 .. 5 : IsHex(f[k])
Malformed(f) == ~WellFormed(f)

\* C14 as stated: the dispatch of a malformed frame changes no channel's
\* energized flag or timestamp.
C14_MalformedNoChannelAction ==
  [][ (DispatchStep /\ Malformed(frameRx))
        => (channelOnBitmask' = channelOnBitmask
              /\ setChannelLastTime' = setChannelLastTime) ]_vars

\* C14 amended: a malformed frame is decoded permissively ("<zz>" to address
\* 0) and dispatched like any frame: it changes channels only if the decoded
\* address is the device address, and then only channels whose bit is set in
\* the decoded command; after every dispatch the decoder is Listening with an
\* empty buffer, and a well-formed frame is decoded to its literal hex
\* values whatever was received before it.
C14_MalformedPermissive ==
  [][ DispatchStep
        => /\ serialMessageActive' = 0
           /\ serialMessageAvailable' = 0
           /\ serialMessageLength' = 0
           /\ frameRx = Fzz => Addr = 0
           /\ (Malformed(frameRx) /\ Addr # deviceAddress)
                => (channelOnBitmask' = channelOnBitmask
                      /\ setChannelLastTime' = setChannelLastTime)
           /\ Malformed(frameRx)
                => \A i \in Channels :
                      bitRead(Cmd, i) = 0
                        => (OnAfter(i) <=> On(i))
                             /\ setChannelLastTime'[i] = setChannelLastTime[i]
           /\ WellFormed(frameRx)
                => /\ Addr = HexDigit(frameRx[2]) * 16 + HexDigit(frameRx[3])
                   /\ Cmd = HexDigit(frameRx[4]) * 16 + HexDigit(frameRx[5])
    ]_vars

\* Device 1 has dispatched "<zz>" without effect and then "<0194>", which
\* turned on channels 2, 4 and 7.
C14_Witness ==
  /\ pc = "check"
  /\ deviceAddress = 1
  /\ out = Fzz \o << CR, LF >> \o F0194 \o << CR, LF >>
  /\ serialLastTime = now
  /\ channelOnBitmask = 148

\* C15: the channel state after the dispatch of "<zz>" is the one the same
\* dispatch gives in the run that received nothing before it; stated for the
\* states that run reaches too: no channel on, no channel ever switched,
\* configuration as loaded at boot.
C15_ZzIndependentOfEarlierFrames ==
  [][ (DispatchStep /\ frameRx = Fzz /\ channelOnBitmask = 0 /\ eeLog = << >>
         /\ \A i \in Channels : setChannelLastTime[i] = 0)
        => LET fresh == [k \in 0 .. (SERIAL_MAX_DATA_LENGTH - 1) |->
                           IF k < 4 THEN Fzz[k + 1] ELSE 0]
               r == processSerial([ee |-> eeprom, on |-> channelOnTime,
                                   off |-> minChannelOffTime, log |-> eeLog],
                                  [mask |-> channelOnBitmask,
                                   last |-> setChannelLastTime,
                                   chg |-> cfgChanged],
                                  fresh, 4, deviceAddress, now)
           IN /\ channelOnBitmask' = r.ch.mask
              /\ setChannelLastTime' = r.ch.last ]_vars

ListenStep == pc = "listen" /\ pc' = "process"

\* The bytes of a received frame that fit the buffer.
Clip(f) == IF Len(f) <= 32 THEN f ELSE SubSeq(f, 1, 31) \o << 62 >>

\* C16: a cycle that finds the decoder Accumulating, no byte waiting and more
\* than 1000 ms passed since the last byte discards the buffer and returns to
\* Listening, dispatches and relays nothing and leaves channels and
\* configuration alone; at 1000 ms or less it discards nothing; what is
\* relayed later holds bytes received after the discard only.
C16_FrameTimeout ==
  [][ /\ (ListenStep /\ serialMessageActive = 1 /\ rx = << >>)
           => IF Elapsed(now, serialLastTime) > 1000
                THEN /\ serialMessageActive' = 0
                     /\ serialMessageLength' = 0
                     /\ serialMessageAvailable' = 0
                     /\ dropped' = dropped \o frameRx
                     /\ frameRx' = << >>
                ELSE /\ serialMessageActive' = 1
                     /\ serialMessageLength' = serialMessageLength
                     /\ serialData' = serialData
                     /\ dropped' = dropped
                     /\ frameRx' = frameRx
      /\ ListenStep
           => /\ out' = out
              /\ channelOnBitmask' = channelOnBitmask
              /\ setChannelLastTime' = setChannelLastTime
              /\ channelOnTime' = channelOnTime
              /\ minChannelOffTime' = minChannelOffTime
              /\ eeprom' = eeprom
      /\ (ProcessStep /\ serialMessageAvailable = 0)
           => /\ out' = out
              /\ channelOnBitmask' = channelOnBitmask
              /\ setChannelLastTime' = setChannelLastTime
              /\ channelOnTime' = channelOnTime
              /\ minChannelOffTime' = minChannelOffTime
              /\ eeprom' = eeprom
      /\ DispatchStep => out' = out \o Clip(frameRx) \o << CR, LF >>
    ]_vars

\* "<01" has just been discarded, 1001 ms after its last byte.
C16_Witness ==
  /\ pc = "process"
  /\ dropped = P01
  /\ serialMessageActive = 0
  /\ serialMessageLength = 0
  /\ Elapsed(now, serialLastTime) = 1001
  /\ out = << >>

\* C17: once "<01" has been discarded by the frame timeout, the only message
\* dispatched and relayed is "<0194>", decoded to address 1 and command 0x94,
\* and it has been dispatched once the input is used up.
C17_MidFrameStall ==
  [][ /\ dropped' = P01 => out' \in { << >>, F0194 \o << CR, LF >> }
      /\ (DispatchStep /\ dropped = P01)
           => (out = << >> /\ frameRx = F0194 /\ Addr = 1 /\ Cmd = 148
                 /\ serialMessageLength = 6)
      /\ (ProcessStep /\ dropped = P01 /\ todo = << >> /\ wire = << >>
            /\ rx = << >> /\ serialMessageActive = 0)
           => out' = F0194 \o << CR, LF >>
    ]_vars

\* After the stall device 1 has dispatched exactly "<0194>".
C17_Witness ==
  /\ pc = "check"
  /\ deviceAddress = 1
  /\ dropped = P01
  /\ out = F0194 \o << CR, LF >>
  /\ channelOnBitmask = 148

\* The first n buffer positions hold the sequence f.
Stored(data, n, f) == n = Len(f) /\ \A k \in 1..n : data[k - 1] = f[k]

\* C18: the stored frame never exceeds 32 bytes; while Accumulating the buffer
\* holds the first 31 bytes received since the start marker and further
\* non-end bytes change neither the buffer nor its length; a completed frame
\* is those bytes followed by the end marker, and it is relayed like that.
C18_BufferBound ==
  /\ [](serialMessageLength <= 32)
  /\ [][ /\ (ListenStep /\ serialMessageActive' = 1)
              => /\ serialMessageLength' <= 31
                 /\ Stored(serialData', serialMessageLength',
                           SubSeq(frameRx', 1, Min(Len(frameRx'), 31)))
         /\ (ListenStep /\ serialMessageActive = 1 /\ serialMessageActive' = 1
               /\ serialMessageLength = 31)
              => (serialMessageLength' = 31 /\ serialData' = serialData)
         /\ (ListenStep /\ serialMessageAvailable' = 1)
              => /\ serialMessageActive' = 0
                 /\ serialData'[serialMessageLength' - 1] = 62
                 /\ Stored(serialData', serialMessageLength', Clip(frameRx'))
         /\ DispatchStep
              => /\ Len(out') <= Len(out) + 34
                 /\ out' = out \o Clip(frameRx) \o << CR, LF >>
       ]_vars

\* The 34-byte frame has been relayed as its first 31 bytes and the end marker.
C18_Witness ==
  /\ pc = "check"
  /\ todo = << >>
  /\ serialMessageLength = 0
  /\ out = SubSeq(F34, 1, 31) \o << 62, CR, LF >>

\* ------------------------------------------------- a decoder run on a stream
\* Decoder of a device that has received nothing since reset.
FreshDecoder ==
  [act |-> 0, len |-> 0,
   data |-> [k \in 0 .. (SERIAL_MAX_DATA_LENGTH - 1) |-> 0],
   next |-> 0, avail |-> 0, last |-> 0, rx |-> << >>, got |-> << >>,
   ret |-> FALSE, drop |-> << >>]

\* The stored message as written to the next device.
Written(data, len) == [k \in 1 .. len |-> data[k - 1]] \o << CR, LF >>

\* Control cycles of a device whose input queue holds s.rx and receives no
\* more: each cycle reads up to the next completed frame and relays it.
\* acc is [out, len]: the bytes relayed and the length of the last message.
RECURSIVE Downstream(_, _)
Downstream(s, acc) ==
  LET s1 == listenLoop(s, 0)
  IN IF s1.ret
       THEN Downstream([s1 EXCEPT !.len = 0, !.avail = 0, !.ret = FALSE,
                                  !.got = << >>],
                       [out |-> acc.out \o Written(s1.data, s1.len),
                        len |-> s1.len, s |-> s1])
       ELSE [out |-> acc.out, len |-> acc.len, s |-> s1]

RECURSIVE Flat(_)
Flat(q) == IF q = << >> THEN << >> ELSE Head(q) \o Flat(Tail(q))

\* Everything relayed so far followed by everything the bytes not yet read
\* will make the device relay when no frame is abandoned.
\* The device's decoder, its output and the bytes it has not read yet.
Snap ==
  [act |-> serialMessageActive, len |-> serialMessageLength,
   data |-> serialData, avail |-> serialMessageAvailable, out |-> out,
   stream |-> rx \o wire \o Flat(todo)]

Total(n) ==
  LET pending == n.avail = 1
      s == [act |-> n.act,
            len |-> IF pending THEN 0 ELSE n.len,
            data |-> n.data, next |-> 0, avail |-> 0,
            last |-> 0, rx |-> n.stream,
            got |-> << >>, ret |-> FALSE, drop |-> << >>]
      first == IF pending THEN Written(n.data, n.len) ELSE << >>
  IN n.out \o Downstream(s, [out |-> first, len |-> 0, s |-> s]).out

\* Position in r of the end marker that completes the frame being read.
EndIndex(r, act) ==
  CHOOSE n \in 1 .. Len(r) :
    /\ r[n] = 62
    /\ act = 1 \/ \E m \in 1 .. (n - 1) : r[m] = 60
    /\ \A j \in 1 .. (n - 1) :
         ~ (r[j] = 62 /\ (act = 1 \/ \E m \in 1 .. (j - 1) : r[m] = 60))

Cat3 == F0005 \o << CR, LF >> \o F0194 \o << CR, LF >> \o F0100 \o << CR, LF >>

\* C19: a cycle that completes a frame leaves every byte behind the frame's
\* end marker in the input queue and a cycle relays at most one frame; as long
\* as no frame is abandoned the frames relayed so far and the frames still to
\* come make up, in order, the frames of the transmitted stream, each once;
\* for <0005><0194> CR LF <0100> these are the three frames.
C19_ConcatenatedFrames ==
  /\ Total(Snap) = Downstream([FreshDecoder EXCEPT !.rx = Flat(todo)],
                        [out |-> << >>, len |-> 0, s |-> FreshDecoder]).out
  /\ todo = << FCat >> => Total(Snap) = Cat3
  /\ [][ /\ (ListenStep /\ serialMessageAvailable' = 1)
              => /\ rx # << >>
                 /\ rx' = SubSeq(rx, EndIndex(rx, serialMessageActive) + 1,
                                 Len(rx))
                 /\ rx[EndIndex(rx, serialMessageActive)] = 62
         /\ (ListenStep /\ serialMessageAvailable' = 0) => rx' = << >>
         /\ DispatchStep
              => /\ out' = out \o Written(serialData, serialMessageLength)
                 /\ rx' = rx
         /\ dropped' = << >> => \A n \in { Snap' } : Total(n) = Total(Snap)
         /\ (dropped' = << >> /\ todo' = << >> /\ wire' = << >>
               /\ rx' = << >> /\ pc' = "check" /\ Len(out') >= 8
               /\ SubSeq(out', Len(out') - 7, Len(out'))
                    = F0100 \o << CR, LF >>)
              => out' = Cat3
       ]_vars

\* All three frames were in the input queue at once; the first has been
\* relayed, the second is about to be, the third is still queued behind the
\* line terminator.
C19_Witness ==
  /\ pc = "process"
  /\ serialMessageAvailable = 1
  /\ frameRx = F0194
  /\ out = F0005 \o << CR, LF >>
  /\ rx = << CR, LF >> \o F0100
  /\ wire = << >>

\* The next device of the chain after it has read the stream o: what it has
\* relayed, the length of its last message and its decoder.
NextDevice(o) ==
  Downstream([FreshDecoder EXCEPT !.rx = o],
             [out |-> << >>, len |-> 0, s |-> FreshDecoder])

\* C20: the next device of the chain completes exactly the frames this device
\* relays, byte for byte and in the same order, and is left with no partial
\* frame; it decodes the same address and command from a frame of five bytes
\* or more, so that at any address of its own it applies a configuration
\* frame as this device does and applies a mask addressed to it.
C20_Chain ==
  /\ [](\A d \in { NextDevice(out) } :
          d.out = out /\ d.s.act = 0 /\ d.s.len = 0)
  /\ [][ DispatchStep
           => \A o2 \in { out' } : \A d \in { NextDevice(o2) } :
                /\ d.out = out \o Written(serialData, serialMessageLength)
                /\ d.len = serialMessageLength
                /\ \A k \in 0 .. (d.len - 1) : d.s.data[k] = serialData[k]
                /\ serialMessageLength >= 5
                     => /\ readSerialByte(d.s.data, 1) = Addr
                        /\ readSerialByte(d.s.data, 3) = Cmd
                        /\ \A a2 \in DeviceAddresses :
                             \A r2 \in { processSerial(
                                           [ee |-> eeprom, on |-> channelOnTime,
                                            off |-> minChannelOffTime,
                                            log |-> eeLog],
                                           [mask |-> channelOnBitmask,
                                            last |-> setChannelLastTime,
                                            chg |-> cfgChanged],
                                           d.s.data, d.len, a2, now) } :
                               /\ r2.written = Written(serialData,
                                                       serialMessageLength)
                               /\ Addr = 255 => r2.cfg.on = channelOnTime'
                               /\ Addr = 254 => r2.cfg.off = minChannelOffTime'
                               /\ r2.cfg.ee = eeprom'
                               /\ Addr # a2
                                    => r2.ch.mask = channelOnBitmask
                               /\ Addr = a2
                                    => \A i \in Channels :
                                         (/\ bitRead(Cmd, i) = 1
                                          /\ bitRead(channelOnBitmask, i) = 0
                                          /\ Elapsed(now, setChannelLastTime[i])
                                               >= r2.cfg.off)
                                           => bitRead(r2.ch.mask, i) = 1
    ]_vars

\* Device 1 has relayed a configuration frame and a frame for device 254, and
\* the next device has completed both.
C20_Witness ==
  /\ pc = "check"
  /\ deviceAddress = 1
  /\ out = FFF19 \o << CR, LF >> \o FFE02 \o << CR, LF >>
  /\ NextDevice(out).out = out
  /\ channelOnTime = 250

\* ------------------------------------------------------------ hex and codec
\* The hex digits in value order, as text.
HexUpper == << 48, 49, 50, 51, 52, 53, 54, 55, 56, 57, 65, 66, 67, 68, 69, 70 >>
HexLower == << 48, 49, 50, 51, 52, 53, 54, 55, 56, 57, 97, 98, 99, 100, 101,
               102 >>

\* Value of the digit c names, 0 if it names none.
Literal(c) ==
  IF \E k \in 1 .. 16 : c \in { HexUpper[k], HexLower[k] }
    THEN (CHOOSE k \in 1 .. 16 : c \in { HexUpper[k], HexLower[k] }) - 1
    ELSE 0

\* C21: charToNib gives every byte value the value of the hex digit it names
\* and 0 to the others; the address and the command of a dispatched frame are
\* 16 times the value of the first character plus the value of the second, at
\* payload characters 0-1 and 2-3, and the dispatcher acts on these values.
C21_HexDecode ==
  /\ \A c \in 0 .. 255 : charToNib(c) = Literal(c)
  /\ [][ /\ DispatchStep
              => /\ Addr = Literal(serialData[1]) * 16 + Literal(serialData[2])
                 /\ Cmd = Literal(serialData[3]) * 16 + Literal(serialData[4])
         /\ (DispatchStep /\ Len(frameRx) = 6)
              => \A a \in { Literal(frameRx[2]) * 16 + Literal(frameRx[3]) } :
                 \A c \in { Literal(frameRx[4]) * 16 + Literal(frameRx[5]) } :
                   /\ Addr = a
                   /\ Cmd = c
                   /\ a = 0 => channelOnBitmask' = c
                   /\ a = 255 => channelOnTime' = 10 * c
                   /\ a = 254 => minChannelOffTime' = 10 * c
                   /\ a \notin {0, 254, 255}
                        => (channelOnBitmask' = 0 /\ eeprom' = eeprom)
       ]_vars

\* "<00aF>" has been dispatched: channels 0-3, 5 and 7 are on.
C21_Witness ==
  /\ pc = "check"
  /\ out = << 60, 48, 48, 97, 70, 62, CR, LF >>
  /\ channelOnBitmask = 175

SendStep == ~ master.sent /\ master'.sent

\* C22: sendMotorShieldCommand writes "<", four hex digits, ">", CR, LF for
\* every boardNum and pdata in 0..255, and the slave dispatches these bytes
\* with address boardNum and command pdata.
C22_RoundTrip ==
  [][ /\ SendStep
           => /\ Len(wire') = 8
              /\ wire'[1] = 60
              /\ \A k \in 2 .. 5 : wire'[k] \in HexChars
              /\ wire'[6] = 62
              /\ wire'[7] = CR
              /\ wire'[8] = LF
      /\ DispatchStep
           => /\ master.sent
              /\ serialMessageLength = 6
              /\ Addr = master.boardNum
              /\ Cmd = master.pdata
              /\ master.boardNum = 0 => channelOnBitmask' = master.pdata
              /\ master.boardNum = 255 => channelOnTime' = 10 * master.pdata
              /\ master.boardNum = 254
                   => minChannelOffTime' = 10 * master.pdata
    ]_vars

\* sendMotorShieldCommand(0, 0x0A) has been decoded: channels 1 and 3 are on.
C22_Witness ==
  /\ pc = "check"
  /\ master = [boardNum |-> 0, pdata |-> 10, sent |-> TRUE]
  /\ out = << 60, 48, 48, 48, 65, 62, CR, LF >>
  /\ channelOnBitmask = 10

\* ------------------------------------------------------------ wraparound
\* The time really passed since the time stamp, and the time stamp as the
\* counter shows it.
TrueElapsed == uptime - lastUptime
Stamp == lastUptime % MillisRange

\* C23: with the counter wrapping at MillisRange, the frame timeout fires
\* exactly when more than 1000 ms have really passed, an on-request is
\* accepted exactly when the minimum off time has really passed, and a
\* channel expires exactly when more than its on time has really passed, for
\* every distance below MillisRange and also across the wraparound.
C23_Wraparound ==
  /\ (TrueElapsed >= 0 /\ TrueElapsed < MillisRange)
  /\ [][ /\ (ListenStep /\ serialMessageActive = 1 /\ rx = << >>
               /\ serialLastTime = Stamp)
              => (serialMessageActive' = 0 <=> TrueElapsed > 1000)
         /\ (DispatchStep /\ Addr = deviceAddress)
              => \A i \in Channels :
                   (bitRead(Cmd, i) = 1 /\ ~On(i)
                      /\ setChannelLastTime[i] = Stamp)
                     => (OnAfter(i) <=> TrueElapsed >= minChannelOffTime')
         /\ CheckStep
              => \A i \in Channels :
                   (On(i) /\ setChannelLastTime[i] = Stamp)
                     => (~OnAfter(i) <=> TrueElapsed > channelOnTime)
       ]_vars

\* The counter wrapped between the last byte of "<01" and the cycle that
\* discarded it 1001 ms later, and channel 2 expired in the same cycle.
C23_Witness ==
  /\ pc = "update"
  /\ dropped = P01
  /\ now < serialLastTime
  /\ TrueElapsed = 1001
  /\ bitRead(actuator, 2) = 1
  /\ ~On(2)

\* ------------------------------------------------------------ output stage
UpdateStep == pc = "update" /\ pc' = "listen"

\* The steps of loop() in the order the program makes them.
CycleOrder ==
  { << "listen", "process" >>, << "process", "check" >>,
    << "check", "update" >>, << "update", "listen" >> }

\* C24: every control cycle ends with one call of updateActiveChannels, after
\* processSerial and checkResetChannels; the call gives the output stage the
\* channel mask as it is then, changed or not, and nothing else in the cycle
\* drives the outputs.
C24_OnePushPerCycle ==
  [][ /\ pc' # pc => << pc, pc' >> \in CycleOrder
      /\ UpdateStep
           => /\ actuator' = channelOnBitmask
              /\ channelOnBitmask' = channelOnBitmask
              /\ \A i \in Channels :
                   bitRead(shiftRegister', motorBus[i + 1])
                     = bitRead(channelOnBitmask, i)
      /\ (~ UpdateStep /\ ~ PowerCycle)
           => /\ actuator' = actuator
              /\ shiftRegister' = shiftRegister
              /\ pwmPins' = pwmPins
    ]_vars

\* Device 1 has put out the mask of channels 2, 4, 7 again in the cycle that
\* dispatched the second "<0194>", in which the mask did not change.
C24_Witness ==
  /\ pc = "listen"
  /\ deviceAddress = 1
  /\ out = F0194 \o << CR, LF >> \o F0194 \o << CR, LF >>
  /\ channelOnBitmask = 148
  /\ actuator = 148
  /\ shiftRegister = 98
  /\ setChannelLastTime[2] < serialLastTime
  /\ lastCheck >= serialLastTime

\* C25: motorBus is a permutation of 0..7; the value allChannelOutput gives
\* the shift register has bit motorBus[i] equal to bit i of the mask for every
\* channel i and is the same whatever the local variable held; PWM pin k is
\* 255 if bit 2k or bit 2k+1 of the mask is set and 0 otherwise.
C25_AllChannelOutput ==
  /\ { motorBus[k] : k \in 1 .. 8 } = 0 .. 7
  /\ [][ UpdateStep
           => /\ shiftRegister' \in 0 .. 255
              /\ \A i \in Channels :
                   bitRead(shiftRegister', motorBus[i + 1])
                     = bitRead(channelOnBitmask, i)
              /\ \A g \in {0, 255} :
                   shiftRegister' = allChannelOutput(channelOnBitmask, g).shift
              /\ \A k \in 0 .. 3 :
                   pwmPins'[k]
                     = IF bitRead(channelOnBitmask, 2 * k) = 1
                            \/ bitRead(channelOnBitmask, 2 * k + 1) = 1
                         THEN 255 ELSE 0
       ]_vars

\* The mask of channels 2, 4, 7 has been put out with all bits of the local
\* set beforehand: bus bits 1, 5, 6, and motors 2, 3, 4 enabled.
C25_Witness ==
  /\ pc = "listen"
  /\ channelOnBitmask = 148
  /\ motorChannels = 255
  /\ shiftRegister = 98
  /\ pwmPins = [k \in 0 .. 3 |-> IF k = 0 THEN 0 ELSE 255]

\* C26: at boot, and after every power cycle, all 8 channels are off and
\* every channel's last transition time is the boot time; the first on-request
\* for a channel is rejected before minChannelOffTime has passed since boot and
\* accepted from then on.
C26_BootDebounce ==
  /\ (channelOnBitmask = 0 /\ \A i \in Channels : setChannelLastTime[i] = now)
  /\ [][ /\ PowerCycle
              => (channelOnBitmask' = 0
                    /\ \A i \in Channels : setChannelLastTime'[i] = now')
         /\ (DispatchStep /\ Addr = deviceAddress)
              => \A i \in Channels :
                   (bitRead(Cmd, i) = 1 /\ ~On(i) /\ setChannelLastTime[i] = 0)
                     => (OnAfter(i) <=> now >= minChannelOffTime')
       ]_vars

\* The first request of device 1, at boot + minChannelOffTime, was accepted;
\* channel 0 still carries the boot time.
C26_Witness ==
  /\ pc = "check"
  /\ deviceAddress = 1
  /\ out = F0194 \o << CR, LF >>
  /\ minChannelOffTime = 10
  /\ now = 10
  /\ On(2)
  /\ setChannelLastTime[2] = 10
  /\ setChannelLastTime[0] = 0

\* A pass of revision 1.0.0 through checkResetChannels.
CheckStepV1 == pc = "check" /\ pc' = "listen"

\* C27: in revision 1.0.0 a completed frame addressed to the device makes
\* the energized outputs exactly the command mask, on the bus and on the PWM
\* pins, and stamps the command time; a command of 00 de-energizes
\* everything; a frame for another address leaves the outputs alone.
C27_MaskExact ==
  [][ DispatchStep
        => IF Addr = deviceAddress
             THEN /\ actuator' = Cmd
                  /\ \A i \in Channels :
                       bitRead(shiftRegister', motorBus[i + 1])
                         = bitRead(Cmd, i)
                  /\ \A k \in 0 .. 3 :
                       pwmPins'[k]
                         = IF bitRead(Cmd, 2 * k) = 1
                                \/ bitRead(Cmd, 2 * k + 1) = 1
                             THEN 255 ELSE 0
                  /\ setChannelsLastTime' = now
                  /\ (Cmd = 0 => shiftRegister' = 0)
             ELSE UNCHANGED << actuator, shiftRegister, pwmPins,
                               setChannelsLastTime >>
    ]_vars

\* "<0006>" was dispatched 499 ms after "<0005>": channel 0 went off,
\* channel 1 came on, channel 2 stayed on.
C27_Witness ==
  /\ pc = "check"
  /\ out = F0005 \o << CR, LF >> \o F0006 \o << CR, LF >>
  /\ actuator = 6
  /\ shiftRegister = 10
  /\ pwmPins = [k \in 0 .. 3 |-> IF k \in {0, 1} THEN 255 ELSE 0]
  /\ lastUptime = uptime
  /\ uptime = MillisRange - 2500 + 499

\* C28: in revision 1.0.0 energized channels stay energized while less than
\* 1 second has elapsed since the last command that set the channels, and are
\* all de-energized by the first pass through checkResetChannels at or after
\* that moment, wherever the millisecond counter stands.
C28_ResetAfterOneSecond ==
  [][ (CheckStepV1 /\ actuator # 0)
        => IF TrueElapsed >= CHANNEL_RESET_TIME
             THEN actuator' = 0
             ELSE actuator' = actuator
    ]_vars

\* The receive queue holds a start marker as its last byte, with no start
\* marker before it.
LoneStart ==
  /\ rx # << >>
  /\ rx[Len(rx)] = SERIAL_MSG_BEGIN_CHAR
  /\ \A k \in 1 .. (Len(rx) - 1) : rx[k] # SERIAL_MSG_BEGIN_CHAR

\* C29 as stated: a start marker received while Listening leaves the buffer
\* with 0 bytes and the decoder Accumulating.
C29_StartMarkerEmptyBuffer ==
  [][ (ListenStep /\ serialMessageActive = 0 /\ LoneStart)
        => (serialMessageActive' = 1 /\ serialMessageLength' = 0)
    ]_vars

\* C29 amended: a listening decoder always has an empty buffer; a start marker
\* received then is stored as the first byte, so the buffer holds exactly 1
\* byte right after it and the decoder is Accumulating; whatever follows, the
\* bytes within the stored length are bytes received since that start marker,
\* in order, while the positions beyond the stored length keep what earlier
\* frames left there.
C29_StartMarkerStored ==
  [][ /\ (pc = "listen" /\ serialMessageActive = 0)
           => serialMessageLength = 0
      /\ (ListenStep /\ serialMessageActive = 0 /\ LoneStart)
           => /\ serialMessageActive' = 1
              /\ serialMessageLength' = 1
              /\ serialData'[0] = SERIAL_MSG_BEGIN_CHAR
              /\ frameRx' = << SERIAL_MSG_BEGIN_CHAR >>
              /\ \A k \in 1 .. (SERIAL_MAX_DATA_LENGTH - 1) :
                   serialData'[k] = serialData[k]
      /\ ListenStep
           => /\ serialMessageLength' <= Len(frameRx')
              /\ \A k \in 1 .. Min(serialMessageLength', 31) :
                   serialData'[k - 1] = frameRx'[k]
              /\ (serialMessageLength' > 0)
                   => serialData'[0] = SERIAL_MSG_BEGIN_CHAR
    ]_vars

\* "<0005>" has been dispatched and a start marker has arrived on its own: the
\* buffer holds that marker, followed by what is left of "<0005>".
C29_Witness ==
  /\ pc = "process"
  /\ out = F0005 \o << CR, LF >>
  /\ serialMessageActive = 1
  /\ serialMessageLength = 1
  /\ frameRx = PStart
  /\ \A k \in 1 .. 6 : serialData[k - 1] = F0005[k]

\* C30: while Accumulating a start marker is appended like any other non-end
\* byte and the bytes stored before it stay; "<01" followed without a stall
\* by "<0194>" is dispatched as the single frame "<01<0194>" of 9 bytes with
\* decoded address 1, and nothing else is ever relayed in that run.
C30_StartMarkerInsideFrame ==
  /\ []((Len(out) >= 4 /\ SubSeq(out, 1, 4) = P01 \o PStart)
          => out = P01 \o F0194 \o << CR, LF >>)
  /\ [][ /\ (ListenStep /\ serialMessageActive = 1 /\ rx # << >>
               /\ Head(rx) = SERIAL_MSG_BEGIN_CHAR
               /\ serialMessageLength < 31)
              => /\ serialMessageLength' > serialMessageLength
                 /\ serialData'[serialMessageLength] = SERIAL_MSG_BEGIN_CHAR
                 /\ \A k \in 0 .. (serialMessageLength - 1) :
                      serialData'[k] = serialData[k]
                 /\ SubSeq(frameRx', 1, Len(frameRx) + 1)
                      = Append(frameRx, SERIAL_MSG_BEGIN_CHAR)
         /\ (DispatchStep /\ Len(frameRx) >= 4
               /\ SubSeq(frameRx, 1, 4) = P01 \o PStart)
              => /\ frameRx = P01 \o F0194
                 /\ serialMessageLength = 9
                 /\ Addr = 1
                 /\ out = << >>
                 /\ out' = P01 \o F0194 \o << CR, LF >>
       ]_vars

\* "<01<0194>" has been relayed whole and nothing was discarded.
C30_Witness ==
  /\ pc = "check"
  /\ out = P01 \o F0194 \o << CR, LF >>
  /\ dropped = << >>
  /\ todo = << >>
  /\ serialMessageLength = 0

\* C31: at most one frame is in progress or pending: listenSerial stops
\* reading at the first end marker of a message, the completed frame is
\* relayed and the buffer emptied by processSerial in the same cycle with the
\* receive queue untouched; at the start of every cycle no frame is pending,
\* and a decoder that is neither accumulating nor holding a completed frame
\* has buffer length 0.
C31_OneFrameAtATime ==
  /\ [](pc = "listen" => serialMessageAvailable = 0)
  /\ [](serialMessageAvailable = 1
          => (pc = "process" /\ serialMessageActive = 0))
  /\ []((serialMessageActive = 0 /\ serialMessageAvailable = 0)
          => serialMessageLength = 0)
  /\ [][ /\ (ListenStep /\ serialMessageAvailable' = 1)
              => /\ \E k \in 1 .. Len(rx) :
                      /\ rx[k] = SERIAL_MSG_END_CHAR
                      /\ rx' = SubSeq(rx, k + 1, Len(rx))
                 /\ frameRx'[Len(frameRx')] = SERIAL_MSG_END_CHAR
                 /\ \A j \in 1 .. (Len(frameRx') - 1) :
                      frameRx'[j] # SERIAL_MSG_END_CHAR
         /\ DispatchStep
              => /\ rx' = rx
                 /\ out' = out \o Written(serialData, serialMessageLength)
                 /\ serialMessageAvailable' = 0
                 /\ serialMessageLength' = 0
                 /\ serialMessageActive' = 0
       ]_vars

\* Three frames arrived together; the first has been relayed and the buffer
\* is empty while the other two are still unread.
C31_Witness ==
  /\ pc = "check"
  /\ out = F0005 \o << CR, LF >>
  /\ rx = F0194 \o << CR, LF >> \o F0100
  /\ serialMessageAvailable = 0
  /\ serialMessageActive = 0
  /\ serialMessageLength = 0

\* C32: the channels are timed independently: what a dispatched frame or
\* the expiry poll does to channel j is decided by channel j's own flag, own
\* last transition time and own command bit alone, and no other step changes
\* a flag or a last transition time; a channel that is on keeps its last
\* transition time while other channels are turned on or off.
C32_ChannelsIndependent ==
  [][ /\ DispatchStep
           => \A j \in Channels :
                IF Addr = deviceAddress /\ bitRead(Cmd, j) = 1 /\ ~On(j)
                     /\ Elapsed(now, setChannelLastTime[j])
                          >= minChannelOffTime'
                  THEN OnAfter(j) /\ setChannelLastTime'[j] = now
                  ELSE /\ OnAfter(j) <=> On(j)
                       /\ setChannelLastTime'[j] = setChannelLastTime[j]
      /\ CheckStep
           => \A j \in Channels :
                IF On(j) /\ Elapsed(now, setChannelLastTime[j]) > channelOnTime
                  THEN ~OnAfter(j) /\ setChannelLastTime'[j] = now
                  ELSE /\ OnAfter(j) <=> On(j)
                       /\ setChannelLastTime'[j] = setChannelLastTime[j]
      /\ (ListenStep \/ UpdateStep)
           => UNCHANGED << channelOnBitmask, setChannelLastTime >>
    ]_vars

\* Channel 2 was turned on at 10 ms, channels 4 and 7 at 20 ms; at 30 ms
\* channel 2 has run out of its 10 ms while 4 and 7 are on since 20 ms.
C32_Witness ==
  /\ pc = "update"
  /\ out = F0104 \o << CR, LF >> \o F0194 \o << CR, LF >>
  /\ channelOnTime = 10
  /\ ~On(2)
  /\ On(4)
  /\ On(7)
  /\ setChannelLastTime[2] = 30
  /\ setChannelLastTime[4] = 20
  /\ setChannelLastTime[7] = 20

\* C33: with the on time unchanged and checkResetChannels run at most
\* MaxCycleGap apart, an output that is energized belongs to a channel turned
\* on at most channelOnTime + MaxCycleGap ago, or to one the expiry poll has
\* just turned off and the push that follows without delay de-energizes;
\* requests for a channel that is on do not restart its time; the poll turns
\* off every channel whose on time is exceeded; and a channel is only turned
\* on while its output is de-energized.
C33_NoContinuousOn ==
  [][ /\ \A i \in Channels :
           (bitRead(actuator', i) = 1 /\ ~cfgChanged'[i])
             => IF OnAfter(i)
                  THEN Elapsed(now', setChannelLastTime'[i])
                         <= channelOnTime' + MaxCycleGap
                  ELSE pc' = "update" /\ setChannelLastTime'[i] = now'
      /\ DispatchStep
           => \A i \in Channels :
                /\ On(i)
                     => (OnAfter(i)
                           /\ setChannelLastTime'[i] = setChannelLastTime[i])
                /\ (~On(i) /\ OnAfter(i)) => bitRead(actuator, i) = 0
      /\ CheckStep
           => \A i \in Channels :
                (On(i) /\ Elapsed(now, setChannelLastTime[i]) > channelOnTime)
                  => ~OnAfter(i)
      /\ (pc = "update")
           => /\ pc' = "listen"
              /\ now' = now
              /\ channelOnBitmask' = channelOnBitmask
              /\ actuator' = channelOnBitmask
    ]_vars

\* The second "<0194>" has been dispatched at 20 ms while channel 2 is on
\* since 10 ms: its time stamp is still 10.
C33_Witness ==
  /\ pc = "check"
  /\ deviceAddress = 1
  /\ out = F0194 \o << CR, LF >> \o F0194 \o << CR, LF >>
  /\ channelOnTime = 10
  /\ now = 20
  /\ On(2)
  /\ bitRead(actuator, 2) = 1
  /\ setChannelLastTime[2] = 10

\* C34: a channel turned on by a dispatched frame carries the time of the
\* dispatch; the expiry poll that runs at that same time leaves it on with
\* that time stamp, whatever the on time, 0 included; and the push of that
\* cycle energizes its output.
C34_OnIsOutputOnce ==
  [][ /\ DispatchStep
           => \A i \in Channels :
                (~On(i) /\ OnAfter(i)) => setChannelLastTime'[i] = now
      /\ CheckStep
           => \A i \in Channels :
                (On(i) /\ setChannelLastTime[i] = now)
                  => (OnAfter(i) /\ setChannelLastTime'[i] = now)
      /\ UpdateStep
           => \A i \in Channels :
                (On(i) /\ setChannelLastTime[i] = now)
                  => bitRead(actuator', i) = 1
    ]_vars

\* With an on time of 0, channel 2 was turned on by "<0194>" and is on in
\* the mask pushed in the same millisecond.
C34_Witness ==
  /\ pc = "listen"
  /\ channelOnTime = 0
  /\ deviceAddress = 1
  /\ out = F0194 \o << CR, LF >>
  /\ On(2)
  /\ bitRead(actuator, 2) = 1
  /\ setChannelLastTime[2] = now
  /\ lastCheck = now
  /\ now > 0

====
